---- MODULE Spec2Model ----
(***************************************************************************)
(* QuickChart MCP server: the generate_chart tool (argument validation,    *)
(* chart configuration building, URL encoding) of the three deployed       *)
(* variants of the server: src/unnamed/part_000 (twelve chart types,       *)
(* graphviz and wordcloud included), src/src/index.ts and                  *)
(* src/src/http-server.ts (ten chart types).                               *)
(*                                                                         *)
(* JavaScript values are tagged records, objects keep their keys in        *)
(* insertion order, strings are TLA+ strings read character by character.  *)
(***************************************************************************)
EXTENDS Integers, Sequences, FiniteSets, TLC

VARIABLES
    variant,      \* which source file is the running server
    env,          \* the endpoint URLs read from the environment at startup
    pc,           \* per invocation: "idle", the await it is suspended at, "done"
    request,      \* per invocation: request.params ([name, arguments])
    chartConfig,  \* per invocation: the local `config` / `chartConfig` of the tool case
    pending,      \* per invocation: the settled outcome of generateChartUrl / the throw
    response,     \* per invocation: what callToolHandler resolved or rejected with
    normalizedConfig, \* per invocation: the local `normalizedConfig` of download_chart
    outputPath,   \* per invocation: the local `outputPath` of download_chart
    io,           \* per invocation: the external I/O calls issued and completed so far
    now,          \* the wall clock, in half seconds
    dirs,         \* the directories of the filesystem: "writable" or "readonly"
    files,        \* the files written: a set of [path, data]
    written,      \* which invocation wrote which path: a set of [path, by]
    http          \* the HTTP request being served, and the response written to it

vars == <<variant, env, pc, request, chartConfig, pending, response,
          normalizedConfig, outputPath, io, now, dirs, files, written, http>>

\* the locals of download_chart, and the world outside the process
downloadLocals == <<normalizedConfig, outputPath, io>>
world == <<now, dirs, files, written>>

-----------------------------------------------------------------------------
(* Bounds of the model *)

\* longest `datasets` array of a request
MaxDatasets == 2
\* most optional wordcloud parameters supplied by one request
MaxOptional == 2
\* most tool invocations in flight in one run
MaxInvocations == 3

-----------------------------------------------------------------------------
(* JavaScript values *)

Undef == [k |-> "undefined"]
Null == [k |-> "null"]
Func == [k |-> "function"]
Num(n) == [k |-> "number", v |-> n]
Str(s) == [k |-> "string", v |-> s]
Bool(b) == [k |-> "boolean", v |-> b]
Arr(s) == [k |-> "array", v |-> s]
Obj(s) == [k |-> "object", v |-> s]
KV(key, val) == [key |-> key, val |-> val]

EmptyObj == Obj(<<>>)

\* An object literal whose optional members are left out when not supplied.
ObjOf(entries) == Obj(SelectSeq(entries, LAMBDA e : e.val # Undef))

\* ToBoolean
Truthy(x) ==
    CASE x.k = "undefined" -> FALSE
      [] x.k = "null" -> FALSE
      [] x.k = "boolean" -> x.v
      [] x.k = "number" -> x.v # 0
      [] x.k = "string" -> x.v # ""
      [] OTHER -> TRUE

IsArray(x) == x.k = "array"

Has(o, key) == o.k = "object" /\ \E j \in 1..Len(o.v) : o.v[j].key = key

\* o.key  (on a value that is not null or undefined)
Get(o, key) ==
    IF Has(o, key)
    THEN o.v[CHOOSE j \in 1..Len(o.v) : o.v[j].key = key].val
    ELSE Undef

\* o?.[i]  with a zero-based index
Index(o, i) ==
    CASE o.k = "array" -> IF i + 1 <= Len(o.v) THEN o.v[i + 1] ELSE Undef
      [] o.k = "string" -> IF i + 1 <= Len(o.v) THEN Str(SubSeq(o.v, i + 1, i + 1)) ELSE Undef
      [] OTHER -> Undef

\* o[key] = val : an existing key keeps its place, a new key goes last
SetKey(o, key, val) ==
    IF Has(o, key)
    THEN Obj([j \in 1..Len(o.v) |-> IF o.v[j].key = key THEN KV(key, val) ELSE o.v[j]])
    ELSE Obj(Append(o.v, KV(key, val)))

\* the own enumerable properties that `...src` copies
SpreadEntries(src) ==
    CASE src.k = "object" -> src.v
      [] src.k = "array" -> [j \in 1..Len(src.v) |-> KV(ToString(j - 1), src.v[j])]
      [] src.k = "string" -> [j \in 1..Len(src.v) |-> KV(ToString(j - 1), Str(SubSeq(src.v, j, j)))]
      [] OTHER -> <<>>

RECURSIVE SetAll(_, _)
SetAll(o, entries) ==
    IF entries = <<>> THEN o
    ELSE SetAll(SetKey(o, Head(entries).key, Head(entries).val), Tail(entries))

\* { ...target, ...src }
Spread(target, src) == SetAll(target, SpreadEntries(src))

-----------------------------------------------------------------------------
(* Errors *)

McpError(code, message) == [code |-> code, message |-> message]
Throw(code, message) == [ok |-> FALSE, error |-> McpError(code, message)]
Return(value) == [ok |-> TRUE, value |-> value]

RECURSIVE Join(_, _)
Join(seq, sep) ==
    IF seq = <<>> THEN ""
    ELSE IF Len(seq) = 1 THEN seq[1]
    ELSE seq[1] \o sep \o Join(Tail(seq), sep)

-----------------------------------------------------------------------------
(* Input Validator and Configuration Builder *)

Variants == {"part_000", "index.ts", "http-server.ts"}

\* the lists with speedometer forgotten in the ten-type variants
validTypes_NoSpeedometer(v) ==
    IF v = "part_000"
    THEN <<"bar", "line", "pie", "doughnut", "radar", "polarArea", "scatter",
           "bubble", "radialGauge", "speedometer", "graphviz", "wordcloud">>
    ELSE <<"bar", "line", "pie", "doughnut", "radar", "polarArea", "scatter",
           "bubble", "radialGauge">>

\* validateChartType: the local validTypes
validTypes(v) ==
    IF v = "part_000"
    THEN <<"bar", "line", "pie", "doughnut", "radar", "polarArea", "scatter",
           "bubble", "radialGauge", "speedometer", "graphviz", "wordcloud">>
    ELSE <<"bar", "line", "pie", "doughnut", "radar", "polarArea", "scatter",
           "bubble", "radialGauge", "speedometer">>

\* validTypes.includes(type)
includes(list, x) == x.k = "string" /\ \E j \in 1..Len(list) : list[j] = x.v

InvalidTypeMessage(v) == "Invalid chart type. Must be one of: " \o Join(validTypes(v), ", ")

\* validateChartType: the error it throws, if any
validateChartType(v, type) ==
    IF ~includes(validTypes(v), type)
    THEN Throw("InvalidParams", InvalidTypeMessage(v))
    ELSE Return(Undef)

\* the callback with additionalConfig spread first, so that the builder's own fields win
NormalizeDataset_DefaultsWin(dataset) ==
    Spread(
        Spread(EmptyObj,
               IF Truthy(Get(dataset, "additionalConfig")) THEN Get(dataset, "additionalConfig") ELSE EmptyObj),
        Obj(<< KV("label", IF Truthy(Get(dataset, "label")) THEN Get(dataset, "label") ELSE Str("")),
               KV("data", Get(dataset, "data")),
               KV("backgroundColor", Get(dataset, "backgroundColor")),
               KV("borderColor", Get(dataset, "borderColor")) >>))

\* the callback of datasets.map, for a dataset that passed its check
NormalizeDataset(dataset) ==
    Spread(
        Obj(<< KV("label", IF Truthy(Get(dataset, "label")) THEN Get(dataset, "label") ELSE Str("")),
               KV("data", Get(dataset, "data")),
               KV("backgroundColor", Get(dataset, "backgroundColor")),
               KV("borderColor", Get(dataset, "borderColor")) >>),
        IF Truthy(Get(dataset, "additionalConfig")) THEN Get(dataset, "additionalConfig") ELSE EmptyObj)

\* the check with the data test forgotten
DatasetHasData_DatasetOnly(dataset) == Truthy(dataset)

DatasetHasData(dataset) == Truthy(dataset) /\ Truthy(Get(dataset, "data"))

\* the options member with the two spreads exchanged, so that the caller's options.title wins
BaseOptions_CallerTitleWins(args) ==
    LET options == IF Get(args, "options") = Undef THEN EmptyObj ELSE Get(args, "options")
        title == Get(args, "title")
    IN Spread(Spread(EmptyObj,
                     IF Truthy(title)
                     THEN Obj(<< KV("title", Obj(<< KV("display", Bool(TRUE)), KV("text", title) >>)) >>)
                     ELSE title),
              options)

\* the options member of the config literal: { ...options, ...(title && { title: {...} }) }
BaseOptions(args) ==
    LET options == IF Get(args, "options") = Undef THEN EmptyObj ELSE Get(args, "options")
        title == Get(args, "title")
    IN Spread(Spread(EmptyObj, options),
              IF Truthy(title)
              THEN Obj(<< KV("title", Obj(<< KV("display", Bool(TRUE)), KV("text", title) >>)) >>)
              ELSE title)

\* the plugins block assigned for radialGauge and speedometer
GaugePlugins ==
    Obj(<< KV("datalabels", Obj(<< KV("display", Bool(TRUE)), KV("formatter", Func) >>)) >>)

GaugeOptions(options) == Spread(Spread(EmptyObj, options), Obj(<< KV("plugins", GaugePlugins) >>))

\* the switch with a gauge test that rejects only a missing reading (== null), not 0
TypeSpecific_AcceptsZero(type, datasets, options) ==
    CASE type.v \in {"radialGauge", "speedometer"} ->
            IF Index(Get(Index(datasets, 0), "data"), 0) \in {Undef, Null}
            THEN Throw("InvalidParams", type.v \o " requires a single numeric value")
            ELSE Return(GaugeOptions(options))
      [] type.v \in {"scatter", "bubble"} ->
            IF \E j \in 1..Len(datasets.v) : ~IsArray(Index(Get(datasets.v[j], "data"), 0))
            THEN Throw("InvalidParams",
                       type.v \o " requires data points in [x, y"
                              \o (IF type.v = "bubble" THEN ", r" ELSE "") \o "] format")
            ELSE Return(options)
      [] OTHER -> Return(options)

\* the switch with a point test that looks at datasets[0] alone
TypeSpecific_FirstDatasetOnly(type, datasets, options) ==
    CASE type.v \in {"radialGauge", "speedometer"} ->
            IF ~Truthy(Index(Get(Index(datasets, 0), "data"), 0))
            THEN Throw("InvalidParams", type.v \o " requires a single numeric value")
            ELSE Return(GaugeOptions(options))
      [] type.v \in {"scatter", "bubble"} ->
            IF Len(datasets.v) > 0 /\ ~IsArray(Index(Get(datasets.v[1], "data"), 0))
            THEN Throw("InvalidParams",
                       type.v \o " requires data points in [x, y"
                              \o (IF type.v = "bubble" THEN ", r" ELSE "") \o "] format")
            ELSE Return(options)
      [] OTHER -> Return(options)

\* the switch (type) after the config literal: the options it leaves, or the error it throws
TypeSpecific(type, datasets, options) ==
    CASE type.v \in {"radialGauge", "speedometer"} ->
            IF ~Truthy(Index(Get(Index(datasets, 0), "data"), 0))
            THEN Throw("InvalidParams", type.v \o " requires a single numeric value")
            ELSE Return(GaugeOptions(options))
      [] type.v \in {"scatter", "bubble"} ->
            IF \E j \in 1..Len(datasets.v) : ~IsArray(Index(Get(datasets.v[j], "data"), 0))
            THEN Throw("InvalidParams",
                       type.v \o " requires data points in [x, y"
                              \o (IF type.v = "bubble" THEN ", r" ELSE "") \o "] format")
            ELSE Return(options)
      [] OTHER -> Return(options)

\* generateChartConfig from the config literal on: type is valid, datasets is an array
BuildConfig(type, args) ==
    LET labels == Get(args, "labels")
        datasets == Get(args, "datasets")
    IN IF \E j \in 1..Len(datasets.v) : ~DatasetHasData(datasets.v[j])
       THEN Throw("InvalidParams", "Each dataset must have a data property")
       ELSE LET specific == TypeSpecific(type, datasets, BaseOptions(args))
            IN IF ~specific.ok THEN specific
               ELSE Return(Obj(<<
                        KV("type", type),
                        KV("data", Obj(<<
                            KV("labels", IF Truthy(labels) THEN labels ELSE Arr(<<>>)),
                            KV("datasets", Arr([j \in 1..Len(datasets.v) |->
                                                    NormalizeDataset(datasets.v[j])])) >>)),
                        KV("options", specific.value) >>))

DatasetsIsArray(args) == Truthy(Get(args, "datasets")) /\ IsArray(Get(args, "datasets"))

\* generateChartConfig with the datasets check ahead of the graphviz/wordcloud return
generateChartConfig_DatasetsFirst(v, args) ==
    IF ~Truthy(args)
    THEN Throw("InvalidParams", "No arguments provided to generateChartConfig")
    ELSE IF ~Truthy(Get(args, "type"))
    THEN Throw("InvalidParams", "Chart type is required")
    ELSE LET type == Get(args, "type")
             valid == validateChartType(v, type)
         IN IF ~valid.ok THEN valid
            ELSE IF ~DatasetsIsArray(args)
            THEN Throw("InvalidParams", "Datasets must be a non-empty array")
            ELSE IF type.v \in {"graphviz", "wordcloud"}
            THEN Return(Obj(<< KV("type", type) >>))
            ELSE BuildConfig(type, args)

\* generateChartConfig of variant v
generateChartConfig(v, args) ==
    IF ~Truthy(args)
    THEN Throw("InvalidParams", "No arguments provided to generateChartConfig")
    ELSE IF ~Truthy(Get(args, "type"))
    THEN Throw("InvalidParams", "Chart type is required")
    ELSE LET type == Get(args, "type")
             valid == validateChartType(v, type)
             noDatasets == Throw("InvalidParams", "Datasets must be a non-empty array")
         IN IF v = "part_000"
            THEN IF ~valid.ok THEN valid
                 ELSE IF type.v \in {"graphviz", "wordcloud"}
                 THEN Return(Obj(<< KV("type", type) >>))
                 ELSE IF ~DatasetsIsArray(args) THEN noDatasets
                 ELSE BuildConfig(type, args)
            ELSE IF ~DatasetsIsArray(args) THEN noDatasets
                 ELSE IF ~valid.ok THEN valid
                 ELSE BuildConfig(type, args)

-----------------------------------------------------------------------------
(* Strings: number formatting, JSON text, percent-encoding *)

Alnum ==
    { "a", "b", "c", "d", "e", "f", "g", "h", "i", "j", "k", "l", "m",
      "n", "o", "p", "q", "r", "s", "t", "u", "v", "w", "x", "y", "z",
      "A", "B", "C", "D", "E", "F", "G", "H", "I", "J", "K", "L", "M",
      "N", "O", "P", "Q", "R", "S", "T", "U", "V", "W", "X", "Y", "Z",
      "0", "1", "2", "3", "4", "5", "6", "7", "8", "9" }

\* the UTF-8 percent-escape of each ASCII character that is not alphanumeric
PercentCode ==
    (" " :> "%20") @@ ("!" :> "%21") @@ ("\"" :> "%22") @@ ("#" :> "%23") @@
    ("$" :> "%24") @@ ("%" :> "%25") @@ ("&" :> "%26") @@ ("'" :> "%27") @@
    ("(" :> "%28") @@ (")" :> "%29") @@ ("*" :> "%2A") @@ ("+" :> "%2B") @@
    ("," :> "%2C") @@ ("-" :> "%2D") @@ ("." :> "%2E") @@ ("/" :> "%2F") @@
    (":" :> "%3A") @@ (";" :> "%3B") @@ ("<" :> "%3C") @@ ("=" :> "%3D") @@
    (">" :> "%3E") @@ ("?" :> "%3F") @@ ("@" :> "%40") @@ ("[" :> "%5B") @@
    ("\\" :> "%5C") @@ ("]" :> "%5D") @@ ("^" :> "%5E") @@ ("_" :> "%5F") @@
    ("{" :> "%7B") @@ ("|" :> "%7C") @@ ("}" :> "%7D") @@
    ("~" :> "%7E")

\* encodeURIComponent leaves these unescaped, besides the alphanumerics
UriMarks == { "-", "_", ".", "!", "~", "*", "'", "(", ")" }

\* the application/x-www-form-urlencoded serializer leaves these unescaped
FormMarks == { "*", "-", ".", "_" }

\* Strings are mapped character by character, by halves to keep the recursion shallow.
UriEscape(c) == IF c \in Alnum \cup UriMarks THEN c ELSE PercentCode[c]

RECURSIVE encodeURIComponent(_)
encodeURIComponent(s) ==
    IF Len(s) = 0 THEN ""
    ELSE IF Len(s) = 1 THEN UriEscape(s)
    ELSE encodeURIComponent(SubSeq(s, 1, Len(s) \div 2))
         \o encodeURIComponent(SubSeq(s, Len(s) \div 2 + 1, Len(s)))

FormEscape(c) ==
    IF c \in Alnum \cup FormMarks THEN c
    ELSE IF c = " " THEN "+"
    ELSE PercentCode[c]

RECURSIVE FormEncode(_)
FormEncode(s) ==
    IF Len(s) = 0 THEN ""
    ELSE IF Len(s) = 1 THEN FormEscape(s)
    ELSE FormEncode(SubSeq(s, 1, Len(s) \div 2))
         \o FormEncode(SubSeq(s, Len(s) \div 2 + 1, Len(s)))

\* QuoteJSONString, without the quotes
RECURSIVE JsonEscape(_)
JsonEscape(s) ==
    IF Len(s) = 0 THEN ""
    ELSE IF Len(s) = 1
    THEN (IF s = "\"" THEN "\\\"" ELSE IF s = "\\" THEN "\\\\" ELSE s)
    ELSE JsonEscape(SubSeq(s, 1, Len(s) \div 2))
         \o JsonEscape(SubSeq(s, Len(s) \div 2 + 1, Len(s)))

QuoteJSONString(s) == "\"" \o JsonEscape(s) \o "\""

\* JSON.stringify has no text for these: left out of objects, null in arrays
HasJsonText(x) == x.k \notin {"undefined", "function"}

\* JSON.stringify(x) for a value that has a JSON text
RECURSIVE JSONstringify(_)
JSONstringify(x) ==
    CASE x.k = "null" -> "null"
      [] x.k = "boolean" -> IF x.v THEN "true" ELSE "false"
      [] x.k = "number" -> ToString(x.v)
      [] x.k = "string" -> QuoteJSONString(x.v)
      [] x.k = "array" ->
            "[" \o Join([j \in 1..Len(x.v) |->
                            IF HasJsonText(x.v[j]) THEN JSONstringify(x.v[j]) ELSE "null"], ",")
                \o "]"
      [] x.k = "object" ->
            LET kept == SelectSeq(x.v, LAMBDA e : HasJsonText(e.val))
            IN "{" \o Join([j \in 1..Len(kept) |->
                               QuoteJSONString(kept[j].key) \o ":" \o JSONstringify(kept[j].val)], ",")
                   \o "}"

\* String(x), also the conversion of a template literal and of URLSearchParams.append
RECURSIVE String(_)
String(x) ==
    CASE x.k = "string" -> x.v
      [] x.k = "number" -> ToString(x.v)
      [] x.k = "boolean" -> IF x.v THEN "true" ELSE "false"
      [] x.k = "null" -> "null"
      [] x.k = "undefined" -> "undefined"
      [] x.k = "array" ->
            Join([j \in 1..Len(x.v) |->
                     IF x.v[j].k \in {"null", "undefined"} THEN "" ELSE String(x.v[j])], ",")
      [] x.k = "object" -> "[object Object]"

-----------------------------------------------------------------------------
(* Reading a URL back: decodeURIComponent and JSON.parse *)

Ch(s, j) == SubSeq(s, j, j)

RECURSIVE ConcatAll(_)
ConcatAll(parts) ==
    IF Len(parts) = 0 THEN ""
    ELSE IF Len(parts) = 1 THEN parts[1]
    ELSE ConcatAll(SubSeq(parts, 1, Len(parts) \div 2))
         \o ConcatAll(SubSeq(parts, Len(parts) \div 2 + 1, Len(parts)))

\* the character a %XX escape stands for
PercentChar(code) == CHOOSE c \in DOMAIN PercentCode : PercentCode[c] = code

\* decodeURIComponent of a well-formed text: every % starts a three-character escape
decodeURIComponent(s) ==
    ConcatAll([j \in 1..Len(s) |->
        IF Ch(s, j) = "%" THEN PercentChar(SubSeq(s, j, j + 2))
        ELSE IF (j > 1 /\ Ch(s, j - 1) = "%") \/ (j > 2 /\ Ch(s, j - 2) = "%") THEN ""
        ELSE Ch(s, j)])

Digits == <<"0", "1", "2", "3", "4", "5", "6", "7", "8", "9">>
IsDigit(c) == \E d \in 1..10 : Digits[d] = c
DigitValue(c) == (CHOOSE d \in 1..10 : Digits[d] = c) - 1

\* the value of a run of decimal digits
RECURSIVE ParseDigits(_, _)
ParseDigits(s, acc) ==
    IF s = "" THEN acc ELSE ParseDigits(Tail(s), 10 * acc + DigitValue(Head(s)))

ParseNumber(s) == IF Head(s) = "-" THEN 0 - ParseDigits(Tail(s), 0) ELSE ParseDigits(s, 0)

\* the position after a number starting at p
RECURSIVE NumberEnd(_, _)
NumberEnd(t, p) ==
    IF p <= Len(t) /\ (IsDigit(Ch(t, p)) \/ Ch(t, p) = "-") THEN NumberEnd(t, p + 1) ELSE p

\* the number of backslashes that stand immediately before position q
RECURSIVE BackslashesBefore(_, _)
BackslashesBefore(t, q) ==
    IF q > 1 /\ Ch(t, q - 1) = "\\" THEN 1 + BackslashesBefore(t, q - 1) ELSE 0

\* a quote that is not escaped
ClosesString(t, q) == Ch(t, q) = "\"" /\ BackslashesBefore(t, q) % 2 = 0

\* the position of the quote closing a string whose content starts at p
StringEnd(t, p) ==
    CHOOSE q \in p..Len(t) : ClosesString(t, q) /\ \A r \in p..(q - 1) : ~ClosesString(t, r)

\* the content of a JSON string with its escapes undone: a backslash that starts an
\* escape is dropped, the character after it is kept
JsonUnescape(s) ==
    ConcatAll([j \in 1..Len(s) |->
        IF Ch(s, j) = "\\" /\ BackslashesBefore(s, j) % 2 = 0 THEN "" ELSE Ch(s, j)])

\* JSON.parse by recursive descent over a compact JSON text: the value that starts at
\* position p and the position after it
RECURSIVE ParseValue(_, _), ParseMembers(_, _, _), ParseElements(_, _, _)
ParseValue(t, p) ==
    LET c == Ch(t, p)
    IN CASE c = "{" -> ParseMembers(t, p + 1, <<>>)
         [] c = "[" -> ParseElements(t, p + 1, <<>>)
         [] c = "\"" ->
               LET e == StringEnd(t, p + 1)
               IN [val |-> Str(JsonUnescape(SubSeq(t, p + 1, e - 1))), next |-> e + 1]
         [] c = "t" -> [val |-> Bool(TRUE), next |-> p + 4]
         [] c = "f" -> [val |-> Bool(FALSE), next |-> p + 5]
         [] c = "n" -> [val |-> Null, next |-> p + 4]
         [] OTHER ->
               LET e == NumberEnd(t, p)
               IN [val |-> Num(ParseNumber(SubSeq(t, p, e - 1))), next |-> e]

ParseMembers(t, p, acc) ==
    IF Ch(t, p) = "}" THEN [val |-> Obj(acc), next |-> p + 1]
    ELSE IF Ch(t, p) = "," THEN ParseMembers(t, p + 1, acc)
    ELSE LET e == StringEnd(t, p + 1)
             key == JsonUnescape(SubSeq(t, p + 1, e - 1))
             member == ParseValue(t, e + 2)
         IN ParseMembers(t, member.next, Append(acc, KV(key, member.val)))

ParseElements(t, p, acc) ==
    IF Ch(t, p) = "]" THEN [val |-> Arr(acc), next |-> p + 1]
    ELSE IF Ch(t, p) = "," THEN ParseElements(t, p + 1, acc)
    ELSE LET element == ParseValue(t, p)
         IN ParseElements(t, element.next, Append(acc, element.val))

JSONparse(t) == ParseValue(t, 1).val

-----------------------------------------------------------------------------
(* Request Encoder *)

\* the optional wordcloud parameters in the order generateChartUrl appends them:
\* the argument read, the query name, the test guarding it, the conversion applied
WordcloudParams ==
    << [arg |-> "wordcloudFormat", name |-> "format", test |-> "truthy", conv |-> "append"],
       [arg |-> "width", name |-> "width", test |-> "truthy", conv |-> "String"],
       [arg |-> "height", name |-> "height", test |-> "truthy", conv |-> "String"],
       [arg |-> "backgroundColor", name |-> "backgroundColor", test |-> "truthy", conv |-> "append"],
       [arg |-> "fontFamily", name |-> "fontFamily", test |-> "truthy", conv |-> "append"],
       [arg |-> "fontWeight", name |-> "fontWeight", test |-> "truthy", conv |-> "append"],
       [arg |-> "loadGoogleFonts", name |-> "loadGoogleFonts", test |-> "truthy", conv |-> "append"],
       [arg |-> "fontScale", name |-> "fontScale", test |-> "truthy", conv |-> "String"],
       [arg |-> "scale", name |-> "scale", test |-> "truthy", conv |-> "append"],
       [arg |-> "padding", name |-> "padding", test |-> "truthy", conv |-> "String"],
       [arg |-> "rotation", name |-> "rotation", test |-> "truthy", conv |-> "String"],
       [arg |-> "maxNumWords", name |-> "maxNumWords", test |-> "truthy", conv |-> "String"],
       [arg |-> "minWordLength", name |-> "minWordLength", test |-> "truthy", conv |-> "String"],
       [arg |-> "case", name |-> "case", test |-> "truthy", conv |-> "append"],
       [arg |-> "colors", name |-> "colors", test |-> "truthy", conv |-> "JSON"],
       [arg |-> "removeStopwords", name |-> "removeStopwords", test |-> "defined", conv |-> "String"],
       [arg |-> "cleanWords", name |-> "cleanWords", test |-> "defined", conv |-> "String"],
       [arg |-> "language", name |-> "language", test |-> "truthy", conv |-> "append"],
       [arg |-> "useWordList", name |-> "useWordList", test |-> "defined", conv |-> "String"] >>

\* the guard of one `if (...) params.append(...)` line
Appended(p, args) ==
    IF p.test = "truthy" THEN Truthy(Get(args, p.arg)) ELSE Get(args, p.arg) # Undef

\* the value that line appends
AppendedValue(p, args) ==
    IF p.conv = "JSON" THEN JSONstringify(Get(args, p.arg)) ELSE String(Get(args, p.arg))

\* the list built by walking the members of the arguments instead of the fixed lines
WordcloudSearchParams_ArgumentOrder(args) ==
    LET IsParam(e) == \E q \in 1..Len(WordcloudParams) :
                          WordcloudParams[q].arg = e.key /\ Appended(WordcloudParams[q], args)
        ParamOf(e) == WordcloudParams[CHOOSE q \in 1..Len(WordcloudParams) :
                                          WordcloudParams[q].arg = e.key]
        kept == SelectSeq(args.v, IsParam)
    IN << KV("text", Get(args, "text").v) >>
       \o [j \in 1..Len(kept) |-> KV(ParamOf(kept[j]).name, AppendedValue(ParamOf(kept[j]), args))]

\* the URLSearchParams list after all the appends: text first, then the optional ones
WordcloudSearchParams(args) ==
    LET kept == SelectSeq(WordcloudParams, LAMBDA p : Appended(p, args))
    IN << KV("text", Get(args, "text").v) >>
       \o [j \in 1..Len(kept) |-> KV(kept[j].name, AppendedValue(kept[j], args))]

\* URLSearchParams.prototype.toString
SearchParamsToString(params) ==
    Join([j \in 1..Len(params) |-> FormEncode(params[j].key) \o "=" \o FormEncode(params[j].val)], "&")

IsNonEmptyString(x) == Truthy(x) /\ x.k = "string"

\* the graphviz URL with the DOT text put in unencoded
GraphvizUrl_RawDot(e, args) ==
    LET format == IF Truthy(Get(args, "graphvizFormat")) THEN Get(args, "graphvizFormat") ELSE Str("png")
        layout == IF Truthy(Get(args, "graphvizLayout")) THEN Get(args, "graphvizLayout") ELSE Str("dot")
    IN e.graphviz \o "?graph=" \o Get(args, "dot").v
          \o "&layout=" \o String(layout) \o "&format=" \o String(format)

GraphvizUrl(e, args) ==
    LET format == IF Truthy(Get(args, "graphvizFormat")) THEN Get(args, "graphvizFormat") ELSE Str("png")
        layout == IF Truthy(Get(args, "graphvizLayout")) THEN Get(args, "graphvizLayout") ELSE Str("dot")
    IN e.graphviz \o "?graph=" \o encodeURIComponent(Get(args, "dot").v)
          \o "&layout=" \o String(layout) \o "&format=" \o String(format)

WordcloudUrl(e, args) == e.wordcloud \o "?" \o SearchParamsToString(WordcloudSearchParams(args))

ChartUrl(e, config) == e.chart \o "?c=" \o encodeURIComponent(JSONstringify(config))

\* generateChartUrl numbering its URLs with a count of the calls made so far
generateChartUrl_Numbered(v, e, config, args) ==
    Return(ChartUrl(e, config) \o "&n=" \o ToString(Cardinality({i \in DOMAIN pc : pc[i] # "idle"})))

\* generateChartUrl of variant v; args is undefined when the caller passes none
generateChartUrl(v, e, config, args) ==
    IF v = "part_000" /\ Get(config, "type") = Str("graphviz")
    THEN IF ~IsNonEmptyString(Get(args, "dot"))
         THEN Throw("InvalidParams", "DOT language code is required for graphviz charts")
         ELSE Return(GraphvizUrl(e, args))
    ELSE IF v = "part_000" /\ Get(config, "type") = Str("wordcloud")
    THEN IF ~IsNonEmptyString(Get(args, "text"))
         THEN Throw("InvalidParams", "Text is required for wordcloud charts")
         ELSE Return(WordcloudUrl(e, args))
    ELSE Return(ChartUrl(e, config))

-----------------------------------------------------------------------------
(* The tool handler *)

Invocations == 1..MaxInvocations

\* getenv(name, default) at module load: the defaults, or every endpoint overridden
DefaultEnv ==
    [chart |-> "https://quickchart.io/chart",
     graphviz |-> "https://quickchart.io/graphviz",
     wordcloud |-> "https://quickchart.io/wordcloud"]

OverriddenEnv ==
    [chart |-> "http://localhost:3400/c",
     graphviz |-> "http://localhost:3400/g",
     wordcloud |-> "http://localhost:3400/w"]

Envs == {DefaultEnv, OverriddenEnv}

NoResponse == [kind |-> "none"]
Result(text) == [kind |-> "result", content |-> << [type |-> "text", text |-> text] >>]
Rejected(error) == [kind |-> "error", error |-> error]

\* the synchronous part of the generate_chart case: generateChartConfig, then the call
\* of generateChartUrl (which throws or returns before the handler is suspended at the
\* await); variant part_000 passes the arguments on, the others do not
GenerateChartOutcome(v, e, args) ==
    LET config == generateChartConfig(v, args)
    IN IF ~config.ok
       THEN [config |-> Undef, settled |-> config]
       ELSE [config |-> config.value,
             settled |-> generateChartUrl(v, e, config.value,
                                          IF v = "part_000" THEN args ELSE Undef)]

\* callToolHandler, case 'generate_chart', up to the await, for a request whose
\* arguments are drawn from Requests
CallGenerateChart(i, Requests) ==
    /\ pc[i] = "idle"
    /\ \E args \in Requests :
         /\ LET out == GenerateChartOutcome(variant, env, args)
            IN /\ chartConfig' = [chartConfig EXCEPT ![i] = out.config]
               /\ pending' = [pending EXCEPT ![i] = out.settled]
         /\ request' = [request EXCEPT ![i] = [name |-> "generate_chart", arguments |-> args]]
    /\ pc' = [pc EXCEPT ![i] = "awaiting"]
    /\ UNCHANGED <<variant, env, response>>
    /\ UNCHANGED <<downloadLocals, world>>
    /\ UNCHANGED http

\* callToolHandler, case 'generate_chart', from the await on: the content is returned,
\* or the catch block rethrows the McpError
SettleGenerateChart(i) ==
    /\ pc[i] = "awaiting"
    /\ request[i].name = "generate_chart"
    /\ response' = [response EXCEPT ![i] =
                        IF pending[i].ok THEN Result(pending[i].value)
                        ELSE Rejected(pending[i].error)]
    /\ pc' = [pc EXCEPT ![i] = "done"]
    /\ UNCHANGED <<variant, env, request, chartConfig, pending>>
    /\ UNCHANGED <<downloadLocals, world>>
    /\ UNCHANGED http

\* no HTTP request received yet
NoConnection == [phase |-> "idle"]

Idle ==
    /\ pc = [i \in Invocations |-> "idle"]
    /\ request = [i \in Invocations |-> [name |-> "", arguments |-> Undef]]
    /\ chartConfig = [i \in Invocations |-> Undef]
    /\ pending = [i \in Invocations |-> Return("")]
    /\ response = [i \in Invocations |-> NoResponse]
    /\ normalizedConfig = [i \in Invocations |-> Undef]
    /\ outputPath = [i \in Invocations |-> Undef]
    /\ io = [i \in Invocations |-> <<>>]
    /\ http = NoConnection

-----------------------------------------------------------------------------
(* download_chart: paths, clock and filesystem *)

\* most instants the clock advances over in one run
MaxClock == 2

HomeDir == "/home/user"

\* path.join(a, b) of a directory and a name without dots or slashes at the borders
pathJoin(a, b) == a \o "/" \o b

DesktopDir == pathJoin(HomeDir, "Desktop")

\* path.dirname of a POSIX path
dirname(p) ==
    LET slashes == {j \in 1..Len(p) : Ch(p, j) = "/"}
        last == IF slashes = {} THEN 0 ELSE CHOOSE j \in slashes : \A q \in slashes : q <= j
    IN IF last = 0 THEN "."
       ELSE IF last = 1 THEN "/"
       ELSE SubSeq(p, 1, last - 1)

\* new Date().toISOString() at instant t of the clock (two instants to a second)
toISOString(t) ==
    "2026-11-01T17:00:0" \o ToString(t \div 2) \o (IF t % 2 = 0 THEN ".000" ELSE ".500") \o "Z"

\* s.replace(/c/g, d) for a character c
ReplaceAll(s, c, d) == ConcatAll([j \in 1..Len(s) |-> IF Ch(s, j) = c THEN d ELSE Ch(s, j)])

FirstIndexOf(s, c) ==
    LET at == {j \in 1..Len(s) : Ch(s, j) = c}
    IN IF at = {} THEN 0 ELSE CHOOSE j \in at : \A q \in at : j <= q

\* s.replace(/\..+/, ''): from the first dot that has something after it to the end
StripFromDot(s) ==
    LET j == FirstIndexOf(s, ".")
    IN IF j = 0 \/ j = Len(s) THEN s ELSE SubSeq(s, 1, j - 1)

\* s.replace(c, d) for a character c: the first occurrence only
ReplaceFirst(s, c, d) ==
    LET j == FirstIndexOf(s, c)
    IN IF j = 0 THEN s ELSE SubSeq(s, 1, j - 1) \o d \o SubSeq(s, j + 1, Len(s))

\* the timestamp of the default file name
Timestamp(t) == ReplaceFirst(StripFromDot(ReplaceAll(toISOString(t), ":", "-")), "T", "_")

\* the default output path in directory baseDir for a chart of this type at instant t
DefaultOutputPath(baseDir, type, t) ==
    pathJoin(baseDir, String(IF Truthy(type) THEN type ELSE Str("chart")) \o "_" \o Timestamp(t) \o ".png")

\* fs.promises.access(dir, W_OK) resolves
Writable(d, dir) == dir \in DOMAIN d /\ d[dir] = "writable"

\* the base directory chosen when Desktop is always taken
DefaultBaseDir_AlwaysDesktop(d) == DesktopDir

\* baseDir after the try/catch around the access check of Desktop
DefaultBaseDir(d) == IF Writable(d, DesktopDir) THEN DesktopDir ELSE HomeDir

\* an error that is not an McpError: what fs, axios or the runtime throw
NativeError(code, message) == [name |-> "Error", code |-> code, message |-> message]
IsMcpError(e) == "name" \notin DOMAIN e

\* the bytes the rendering service answers with, and Buffer.from(data).toString('base64')
ImageData == "PNG"
Base64(data) == IF data = "PNG" THEN "UE5H" ELSE ""

Ok(data) == [ok |-> TRUE, data |-> data]
Failed(error) == [ok |-> FALSE, error |-> error]

\* how axios.get may settle: the image, or an error with the code of its cause
FetchOutcomes ==
    { Ok(ImageData),
      Failed(NativeError("ERR_BAD_REQUEST", "Request failed with status code 400")),
      Failed(NativeError("ECONNREFUSED", "connect ECONNREFUSED 127.0.0.1:3400")),
      Failed(NativeError("EACCES", "connect EACCES 127.0.0.1:3400")) }

\* how fs.promises.writeFile may settle
WriteOutcomes(path) ==
    { Ok(""),
      Failed(NativeError("EACCES", "EACCES: permission denied, open '" \o path \o "'")),
      Failed(NativeError("EROFS", "EROFS: read-only file system, open '" \o path \o "'")),
      Failed(NativeError("ENOENT", "ENOENT: no such file or directory, open '" \o path \o "'")),
      Failed(NativeError("ENOSPC", "ENOSPC: no space left on device, write")) }

\* the filesystems a server may run on
WritableDirs == (HomeDir :> "writable") @@ (DesktopDir :> "writable") @@ ("/out" :> "writable")

DirStates ==
    { WritableDirs,
      (HomeDir :> "writable") @@ (DesktopDir :> "readonly") @@ ("/out" :> "writable"),
      (HomeDir :> "writable") @@ ("/out" :> "readonly"),
      (HomeDir :> "readonly") @@ (DesktopDir :> "writable") @@ ("/out" :> "writable"),
      (HomeDir :> "readonly") @@ ("/out" :> "writable") }

Disk(d) ==
    /\ now = 0
    /\ dirs = d
    /\ files = {}
    /\ written = {}

\* the clock advances
Tick ==
    /\ now < MaxClock
    /\ now' = now + 1
    /\ UNCHANGED <<variant, env, pc, request, chartConfig, pending, response,
                   downloadLocals, dirs, files, written>>
    /\ UNCHANGED http

-----------------------------------------------------------------------------
(* download_chart: the tool handler *)

\* typeof x === 'object'
IsObjectType(x) == x.k \in {"object", "array", "null"}

\* one of the three `if (config.data && ...) normalizedConfig.key = config.data.key`
Lift(config, n, key) ==
    LET data == Get(config, "data")
    IN IF Truthy(data) /\ IsObjectType(data) /\ Truthy(Get(data, key)) /\ ~Truthy(Get(n, key))
       THEN SetKey(n, key, Get(data, key))
       ELSE n

\* the normalization with the nested value always taken
Normalize_NestedWins(config) ==
    LET Take(n, key) == IF Truthy(Get(Get(config, "data"), key))
                        THEN SetKey(n, key, Get(Get(config, "data"), key)) ELSE n
    IN Take(Take(Take(Spread(EmptyObj, config), "datasets"), "labels"), "type")

\* the normalization that forgets to lift the labels
Normalize_LabelsLeftNested(config) ==
    Lift(config, Lift(config, Spread(EmptyObj, config), "datasets"), "type")

\* normalizedConfig: { ...config }, then datasets, labels and type lifted out of config.data
Normalize(config) ==
    Lift(config, Lift(config, Lift(config, Spread(EmptyObj, config), "datasets"), "labels"), "type")

\* the final validation looking at the type alone
FailsFinalValidation_TypeOnly(n) == ~Truthy(Get(n, "type"))

\* the final validation after normalization
FailsFinalValidation(n) == ~Truthy(Get(n, "type")) \/ ~Truthy(Get(n, "datasets"))

\* the translation that knows EACCES alone
WriteErrorTranslation_AccessOnly(error, path) ==
    IF error.code = "EACCES"
    THEN McpError("InvalidParams", "Cannot write to " \o path \o ": Permission denied")
    ELSE error

\* the catch around the fetch and the write: what it throws
WriteErrorTranslation(error, path) ==
    IF error.code = "EACCES" \/ error.code = "EROFS"
    THEN McpError("InvalidParams", "Cannot write to " \o path \o ": Permission denied")
    ELSE IF error.code = "ENOENT"
    THEN McpError("InvalidParams", "Cannot write to " \o path \o ": Directory does not exist")
    ELSE error

\* the catch of the download_chart case: what it throws
DownloadCatch(error) ==
    IF IsMcpError(error) THEN error
    ELSE McpError("InternalError",
                  "Failed to download chart: "
                      \o (IF error.message # "" THEN error.message ELSE "Unknown error"))

\* callToolHandler returns the content
Resolve(i, content) ==
    /\ response' = [response EXCEPT ![i] = content]
    /\ pc' = [pc EXCEPT ![i] = "done"]

\* an error thrown inside the try of the download_chart case
Reject(i, error) == Resolve(i, Rejected(DownloadCatch(error)))

Saved(path) == Result("Chart saved to " \o path)

Image(data) ==
    [kind |-> "result",
     content |-> << [type |-> "text",
                     text |-> "Chart generated successfully. Image data (base64): "
                                \o Base64(data) \o "..."],
                    [type |-> "image", data |-> Base64(data), mimeType |-> "image/png"] >>]

WritesToDisk(v) == v \in {"part_000", "index.ts"}

Started(op, target) == [op |-> op, target |-> target, phase |-> "start"]
Completed(op, target, outcome) == [op |-> op, target |-> target, phase |-> outcome]
Logged(i, events) == io' = [io EXCEPT ![i] = io[i] \o events]

\* the build and encode step with the normalized config handed on to generateChartUrl
BuildAndEncode_PassesArguments(i, n) ==
    LET built == generateChartConfig(variant, n)
    IN IF ~built.ok
       THEN /\ Reject(i, built.error)
            /\ pending' = [pending EXCEPT ![i] = built]
            /\ UNCHANGED chartConfig
       ELSE /\ chartConfig' = [chartConfig EXCEPT ![i] = built.value]
            /\ pending' = [pending EXCEPT ![i] = generateChartUrl(variant, env, built.value, n)]
            /\ pc' = [pc EXCEPT ![i] = "url"]
            /\ UNCHANGED response

\* generateChartConfig(normalizedConfig), then the call of generateChartUrl(chartConfig),
\* suspended at its await
BuildAndEncode(i, n) ==
    LET built == generateChartConfig(variant, n)
    IN IF ~built.ok
       THEN /\ Reject(i, built.error)
            /\ pending' = [pending EXCEPT ![i] = built]
            /\ UNCHANGED chartConfig
       ELSE /\ chartConfig' = [chartConfig EXCEPT ![i] = built.value]
            /\ pending' = [pending EXCEPT ![i] = generateChartUrl(variant, env, built.value, Undef)]
            /\ pc' = [pc EXCEPT ![i] = "url"]
            /\ UNCHANGED response

\* callToolHandler, case 'download_chart', up to its first await: the arguments are
\* destructured, the config is normalized and validated
CallDownloadChart(i, Requests) ==
    /\ pc[i] = "idle"
    /\ \E args \in Requests :
         /\ request' = [request EXCEPT ![i] = [name |-> "download_chart", arguments |-> args]]
         /\ LET config == Get(args, "config")
                n == Normalize(config)
            IN IF args \in {Undef, Null}
               THEN /\ Reject(i, NativeError("TypeError",
                            "Cannot destructure property 'config' of 'request.params.arguments' as it is undefined."))
                    /\ UNCHANGED <<chartConfig, pending, downloadLocals>>
               ELSE IF ~Truthy(config) \/ ~IsObjectType(config)
               THEN /\ Reject(i, McpError("InvalidParams",
                                          "Config must be a valid chart configuration object"))
                    /\ UNCHANGED <<chartConfig, pending, downloadLocals>>
               ELSE /\ normalizedConfig' = [normalizedConfig EXCEPT ![i] = n]
                    /\ UNCHANGED <<outputPath, io>>
                    /\ IF FailsFinalValidation(n)
                       THEN /\ Reject(i, McpError("InvalidParams",
                                   "Config must include type and datasets properties (either at root level or inside data object)"))
                            /\ UNCHANGED <<chartConfig, pending>>
                       ELSE IF WritesToDisk(variant)
                       THEN /\ pc' = [pc EXCEPT ![i] = "imports"]
                            /\ UNCHANGED <<chartConfig, pending, response>>
                       ELSE BuildAndEncode(i, n)
    /\ UNCHANGED <<variant, env, world>>
    /\ UNCHANGED http

\* after the three dynamic imports: the caller's output path is taken, or the access check
\* of Desktop is issued; with a path, the access check of its directory is issued
DownloadResolvePath(i) ==
    /\ pc[i] = "imports"
    /\ LET userProvidedPath == Get(request[i].arguments, "outputPath")
       IN IF ~Truthy(userProvidedPath)
          THEN /\ outputPath' = [outputPath EXCEPT ![i] = userProvidedPath]
               /\ Logged(i, << Started("access", DesktopDir) >>)
               /\ pc' = [pc EXCEPT ![i] = "desktop"]
          ELSE /\ outputPath' = [outputPath EXCEPT ![i] = userProvidedPath]
               /\ Logged(i, << Started("access", dirname(userProvidedPath.v)) >>)
               /\ pc' = [pc EXCEPT ![i] = "dir"]
    /\ UNCHANGED <<variant, env, request, chartConfig, pending, response, normalizedConfig, world>>
    /\ UNCHANGED http

\* the access check of Desktop has settled: the default path is made of the base
\* directory, the chart type and the time, and the access check of its directory is issued
DownloadDefaultPath(i) ==
    /\ pc[i] = "desktop"
    /\ LET path == DefaultOutputPath(DefaultBaseDir(dirs), Get(normalizedConfig[i], "type"), now)
       IN /\ outputPath' = [outputPath EXCEPT ![i] = Str(path)]
          /\ Logged(i, << Completed("access", DesktopDir,
                                    IF Writable(dirs, DesktopDir) THEN "ok" ELSE "error"),
                          Started("access", dirname(path)) >>)
    /\ pc' = [pc EXCEPT ![i] = "dir"]
    /\ UNCHANGED <<variant, env, request, chartConfig, pending, response, normalizedConfig, world>>
    /\ UNCHANGED http

\* the step with the config built before the directory is looked at
DownloadDirChecked_BuildFirst(i) ==
    /\ pc[i] = "dir"
    /\ LET outputDir == dirname(outputPath[i].v)
           built == generateChartConfig(variant, normalizedConfig[i])
       IN IF ~built.ok
          THEN /\ Logged(i, << Completed("access", outputDir, "ok") >>)
               /\ BuildAndEncode(i, normalizedConfig[i])
          ELSE IF ~Writable(dirs, outputDir)
          THEN /\ Logged(i, << Completed("access", outputDir, "error") >>)
               /\ Reject(i, McpError("InvalidParams",
                      "Output directory does not exist or is not writable: " \o outputDir))
               /\ UNCHANGED <<chartConfig, pending>>
          ELSE /\ Logged(i, << Completed("access", outputDir, "ok") >>)
               /\ BuildAndEncode(i, normalizedConfig[i])
    /\ UNCHANGED <<variant, env, request, normalizedConfig, outputPath, world>>
    /\ UNCHANGED http

\* the access check of the output directory has settled: InvalidParams if it failed,
\* else the config is built and generateChartUrl is called
DownloadDirChecked(i) ==
    /\ pc[i] = "dir"
    /\ LET outputDir == dirname(outputPath[i].v)
       IN IF ~Writable(dirs, outputDir)
          THEN /\ Logged(i, << Completed("access", outputDir, "error") >>)
               /\ Reject(i, McpError("InvalidParams",
                      "Output directory does not exist or is not writable: " \o outputDir))
               /\ UNCHANGED <<chartConfig, pending>>
          ELSE /\ Logged(i, << Completed("access", outputDir, "ok") >>)
               /\ BuildAndEncode(i, normalizedConfig[i])
    /\ UNCHANGED <<variant, env, request, normalizedConfig, outputPath, world>>
    /\ UNCHANGED http

\* generateChartUrl has settled: its error is rethrown, or the fetch is issued
DownloadUrlSettled(i) ==
    /\ pc[i] = "url"
    /\ request[i].name = "download_chart"
    /\ IF ~pending[i].ok
       THEN /\ Reject(i, pending[i].error)
            /\ UNCHANGED io
       ELSE /\ Logged(i, << Started("fetch", pending[i].value) >>)
            /\ pc' = [pc EXCEPT ![i] = "fetch"]
            /\ UNCHANGED response
    /\ UNCHANGED <<variant, env, request, chartConfig, pending, normalizedConfig, outputPath, world>>
    /\ UNCHANGED http

\* the step that goes on to the write after a failed fetch
DownloadFetched_WriteAnyway(i, Outcomes) ==
    /\ pc[i] = "fetch"
    /\ \E outcome \in Outcomes :
         IF WritesToDisk(variant)
         THEN /\ Logged(i, << Completed("fetch", pending[i].value, IF outcome.ok THEN "ok" ELSE "error"),
                              Started("write", outputPath[i].v) >>)
              /\ pc' = [pc EXCEPT ![i] = "write"]
              /\ UNCHANGED response
         ELSE /\ Logged(i, << Completed("fetch", pending[i].value, IF outcome.ok THEN "ok" ELSE "error") >>)
              /\ IF outcome.ok THEN Resolve(i, Image(outcome.data)) ELSE Reject(i, outcome.error)
    /\ UNCHANGED <<variant, env, request, chartConfig, pending, normalizedConfig, outputPath, world>>
    /\ UNCHANGED http

\* axios.get has settled: on an error the catch blocks run; else the write is issued, or in
\* the variant that writes no file the image is returned
DownloadFetched(i, Outcomes) ==
    /\ pc[i] = "fetch"
    /\ \E outcome \in Outcomes :
         IF ~outcome.ok
         THEN /\ Logged(i, << Completed("fetch", pending[i].value, "error") >>)
              /\ Reject(i, IF WritesToDisk(variant)
                           THEN WriteErrorTranslation(outcome.error, outputPath[i].v)
                           ELSE outcome.error)
         ELSE IF WritesToDisk(variant)
         THEN /\ Logged(i, << Completed("fetch", pending[i].value, "ok"),
                              Started("write", outputPath[i].v) >>)
              /\ pc' = [pc EXCEPT ![i] = "write"]
              /\ UNCHANGED response
         ELSE /\ Logged(i, << Completed("fetch", pending[i].value, "ok") >>)
              /\ Resolve(i, Image(outcome.data))
    /\ UNCHANGED <<variant, env, request, chartConfig, pending, normalizedConfig, outputPath, world>>
    /\ UNCHANGED http

\* fs.promises.writeFile has settled: the file holds the image and the path is reported,
\* or the catch blocks run
DownloadWritten(i, Fails) ==
    /\ pc[i] = "write"
    /\ LET path == outputPath[i].v
       IN \E outcome \in {o \in WriteOutcomes(path) : o.ok \/ o.error.code \in Fails} :
            IF outcome.ok
            THEN /\ files' = {f \in files : f.path # path} \cup {[path |-> path, data |-> ImageData]}
                 /\ written' = written \cup {[path |-> path, by |-> i]}
                 /\ Logged(i, << Completed("write", path, "ok") >>)
                 /\ Resolve(i, Saved(path))
            ELSE /\ Logged(i, << Completed("write", path, outcome.error.code) >>)
                 /\ Reject(i, WriteErrorTranslation(outcome.error, path))
                 /\ UNCHANGED <<files, written>>
    /\ UNCHANGED <<variant, env, request, chartConfig, pending, normalizedConfig, outputPath, now, dirs>>
    /\ UNCHANGED http

-----------------------------------------------------------------------------
(* Requests *)

AllTypes == validTypes("part_000")

TypeValues ==
    {Undef, Str(""), Str("foo"), Num(3)} \cup {Str(AllTypes[j]) : j \in 1..Len(AllTypes)}

DatasetValues ==
    { Null,
      Obj(<< KV("label", Str("A")) >>),
      Obj(<< KV("data", Arr(<<>>)) >>),
      Obj(<< KV("data", Arr(<< Num(0) >>)) >>),
      Obj(<< KV("data", Arr(<< Null >>)) >>),
      Obj(<< KV("data", Arr(<< Arr(<< Num(1), Num(2) >>) >>)) >>),
      Obj(<< KV("label", Str("A")), KV("data", Arr(<< Num(5) >>)),
             KV("backgroundColor", Str("red")),
             KV("additionalConfig", Obj(<< KV("fill", Bool(FALSE)) >>)) >>),
      Obj(<< KV("label", Str("A")), KV("data", Arr(<< Num(5) >>)),
             KV("borderColor", Str("#000")),
             KV("additionalConfig", Obj(<< KV("label", Str("B")),
                                           KV("data", Arr(<< Num(7), Num(8) >>)),
                                           KV("backgroundColor", Str("blue")),
                                           KV("borderColor", Str("#fff")) >>)) >>) }

SeqsUpTo(S, n) == UNION {[1..m -> S] : m \in 0..n}

DatasetsValues ==
    {Undef, Null, Str("none")} \cup {Arr(s) : s \in SeqsUpTo(DatasetValues, MaxDatasets)}

TitleValues == {Undef, Str(""), Str("Q 1")}

OptionsValues ==
    { Undef,
      Obj(<< KV("title", Str("old")), KV("legend", Obj(<< KV("display", Bool(FALSE)) >>)) >>),
      Obj(<< KV("responsive", Bool(TRUE)),
             KV("plugins", Obj(<< KV("legend", Obj(<< KV("display", Bool(FALSE)) >>)),
                                  KV("datalabels", Obj(<< KV("color", Str("red")) >>)) >>)) >>) }

ChartArgs(t, ds, ti, op) ==
    ObjOf(<< KV("type", t), KV("labels", IF ti = Undef THEN Undef ELSE Arr(<< Str("x") >>)),
             KV("datasets", ds), KV("title", ti), KV("options", op) >>)

\* datasets that pass every check of some chart type, and no datasets
ShapedDatasets ==
    { Undef } \cup
    { Arr(<< d >>) : d \in { e \in DatasetValues : Truthy(Index(Get(e, "data"), 0)) } }

\* the arguments of a chart request: no arguments at all, every type with every
\* datasets value, and every type with a title (and labels) or options or both
ChartRequests ==
    {Undef}
    \cup { ChartArgs(t, ds, Undef, Undef) : t \in TypeValues, ds \in DatasetsValues }
    \cup { ChartArgs(t, ds, ti, op) :
             t \in TypeValues, ds \in ShapedDatasets, ti \in TitleValues, op \in OptionsValues }

Init ==
    /\ variant \in Variants
    /\ env \in Envs
    /\ Idle
    /\ Disk(WritableDirs)

Next ==
    \/ CallGenerateChart(1, ChartRequests)
    \/ SettleGenerateChart(1)

Spec == Init /\ [][Next]_vars

-----------------------------------------------------------------------------
(* Graphviz and wordcloud requests, which only variant part_000 serves *)

DotValues == {Undef, Num(7), Str(""), Str("digraph G { A -> B; }"), Str("graph{a--b}")}

GraphvizRequests ==
    { ObjOf(<< KV("type", Str("graphviz")), KV("dot", dot), KV("graphvizLayout", layout),
               KV("graphvizFormat", format), KV("datasets", ds) >>) :
        dot \in DotValues,
        layout \in {Undef, Str(""), Str("neato"), Str("force&c=1")},
        format \in {Undef, Str("svg"), Str("gif")},
        ds \in {Undef, Str("none")} }

TextValues == {Undef, Num(7), Str(""), Str("a b c"), Str("x&y=1")}

\* for each optional wordcloud parameter, in the order of WordcloudParams: a value the
\* schema describes and a value of the same type that is falsy (or empty)
OptionalValues ==
    << <<Str("png"), Str("")>>,
       <<Num(600), Num(0)>>,
       <<Num(400), Num(0)>>,
       <<Str("#fff"), Str("")>>,
       <<Str("sans serif"), Str("")>>,
       <<Str("bold"), Str("")>>,
       <<Str("Roboto"), Str("")>>,
       <<Num(25), Num(0)>>,
       <<Str("sqrt"), Str("")>>,
       <<Num(2), Num(0)>>,
       <<Num(45), Num(0)>>,
       <<Num(5), Num(0)>>,
       <<Num(3), Num(0)>>,
       <<Str("upper"), Str("")>>,
       <<Arr(<< Str("red"), Str("#00f") >>), Arr(<<>>)>>,
       <<Bool(TRUE), Bool(FALSE)>>,
       <<Bool(TRUE), Bool(FALSE)>>,
       <<Str("en"), Str("")>>,
       <<Bool(TRUE), Bool(FALSE)>> >>

\* up to MaxOptional parameters, by increasing position in WordcloudParams
ParamChoices ==
    { s \in SeqsUpTo(1..Len(WordcloudParams), MaxOptional) :
        \A a \in 1..Len(s) : \A b \in 1..Len(s) : a < b => s[a] < s[b] }

Reverse(s) == [j \in 1..Len(s) |-> s[Len(s) + 1 - j]]

\* the chosen parameters as members of the arguments object
OptionalMembers(s, which) ==
    [j \in 1..Len(s) |-> KV(WordcloudParams[s[j]].arg, OptionalValues[s[j]][which[j]])]

\* wordcloud arguments with the optional parameters s (positions in WordcloudParams),
\* each with the first or the second of its values; the keys of the object in the order
\* of WordcloudParams after type and text, or in the opposite order before them
WordcloudArgs(s, which, reversed) ==
    IF reversed
    THEN Obj(Reverse(OptionalMembers(s, which))
             \o << KV("text", Str("a b c")), KV("type", Str("wordcloud")) >>)
    ELSE Obj(<< KV("type", Str("wordcloud")), KV("text", Str("a b c")) >>
             \o OptionalMembers(s, which))

\* wordcloud arguments: every text value without optional parameters, and a text with
\* up to MaxOptional optional parameters
WordcloudRequests ==
    { ObjOf(<< KV("type", Str("wordcloud")), KV("text", text) >>) : text \in TextValues }
    \cup { WordcloudArgs(s, which, reversed) :
             s \in ParamChoices, which \in [1..MaxOptional -> {1, 2}], reversed \in BOOLEAN }

TextRequests == GraphvizRequests \cup WordcloudRequests

InitText ==
    /\ variant = "part_000"
    /\ env \in Envs
    /\ Idle
    /\ Disk(WritableDirs)

NextText ==
    \/ CallGenerateChart(1, TextRequests)
    \/ SettleGenerateChart(1)

SpecText == InitText /\ [][NextText]_vars

-----------------------------------------------------------------------------
(* Concurrent invocations: every invocation is one call of callToolHandler, suspended
   once at its await; the steps of different invocations interleave freely *)

ConcurrentRequests ==
    { Undef,
      ChartArgs(Str("bar"), Arr(<< Obj(<< KV("data", Arr(<< Num(5), Num(7) >>)) >>) >>),
                Str("Q 1"), Undef),
      ChartArgs(Str("radialGauge"), Arr(<< Obj(<< KV("data", Arr(<< Num(0) >>)) >>) >>),
                Undef, Undef),
      Obj(<< KV("type", Str("graphviz")), KV("dot", Str("graph{a--b}")) >>),
      Obj(<< KV("type", Str("wordcloud")), KV("text", Str("a b c")),
             KV("maxNumWords", Num(5)) >>) }

NextConcurrent ==
    \E i \in Invocations :
        \/ CallGenerateChart(i, ConcurrentRequests)
        \/ SettleGenerateChart(i)

SpecConcurrent == Init /\ [][NextConcurrent]_vars

-----------------------------------------------------------------------------
(* download_chart requests *)

DatasetsA == Arr(<< Obj(<< KV("data", Arr(<< Num(5) >>)) >>) >>)
DatasetsB == Arr(<< Obj(<< KV("label", Str("n")), KV("data", Arr(<< Num(1), Num(2) >>)) >>) >>)

\* a config with these top-level members and these members nested under data; data is
\* left out when nothing is nested
ConfigOf(type, datasets, labels, nestedType, nestedDatasets, nestedLabels) ==
    ObjOf(<< KV("type", type), KV("datasets", datasets), KV("labels", labels),
             KV("data", IF nestedType = Undef /\ nestedDatasets = Undef /\ nestedLabels = Undef
                        THEN Undef
                        ELSE ObjOf(<< KV("type", nestedType), KV("datasets", nestedDatasets),
                                      KV("labels", nestedLabels) >>)),
             KV("title", IF labels = Undef THEN Undef ELSE Str("Q 1")) >>)

\* every way of giving type, datasets and labels at top level, nested, or both
NormalizationConfigs ==
    { ConfigOf(type, datasets, labels, nestedType, nestedDatasets, nestedLabels) :
        type \in {Undef, Str(""), Str("bar")},
        datasets \in {Undef, Null, DatasetsA},
        labels \in {Undef, Null, Arr(<< Str("x") >>)},
        nestedType \in {Undef, Str("line")},
        nestedDatasets \in {Undef, DatasetsB},
        nestedLabels \in {Undef, Arr(<< Str("y"), Str("z") >>)} }

\* no config, configs that are no mapping, configs the builder or the encoder rejects,
\* and configs it accepts
OtherConfigs ==
    { Undef, Null, Str("bar"), Arr(<<>>),
      Obj(<< KV("type", Str("bar")), KV("datasets", DatasetsA), KV("data", Str("none")) >>),
      Obj(<< KV("type", Str("foo")), KV("datasets", DatasetsA) >>),
      Obj(<< KV("type", Str("scatter")), KV("datasets", DatasetsA) >>),
      Obj(<< KV("type", Str("radialGauge")),
             KV("datasets", Arr(<< Obj(<< KV("data", Arr(<< Num(0) >>)) >>) >>)) >>),
      Obj(<< KV("type", Str("graphviz")), KV("dot", Str("graph{a--b}")),
             KV("datasets", DatasetsA) >>),
      Obj(<< KV("type", Str("graphviz")), KV("dot", Str("graph{a--b}")) >>),
      Obj(<< KV("type", Str("wordcloud")), KV("text", Str("a b c")),
             KV("datasets", DatasetsA) >>),
      Obj(<< KV("data", Obj(<< KV("type", Str("wordcloud")), KV("datasets", DatasetsB) >>)),
             KV("text", Str("a b c")) >>),
      Obj(<< KV("type", Str("pie")), KV("datasets", DatasetsB),
             KV("options", Obj(<< KV("legend", Obj(<< KV("display", Bool(FALSE)) >>)) >>)),
             KV("width", Num(300)) >>),
      Obj(<< KV("options", Obj(<< KV("title", Str("old")) >>)),
             KV("data", Obj(<< KV("labels", Arr(<< Str("y") >>)), KV("datasets", DatasetsB) >>)),
             KV("type", Str("line")) >>) }

OutputPaths == {Undef, Str(""), Str("/out/chart.png"), Str("/missing/chart.png")}

DownloadArgs(config, path) == ObjOf(<< KV("config", config), KV("outputPath", path) >>)

\* no arguments, every normalization case with an output path, and the other configs with
\* every output path
DownloadRequests ==
    {Undef}
    \cup { DownloadArgs(config, Str("/out/chart.png")) : config \in NormalizationConfigs }
    \cup { DownloadArgs(config, path) : config \in OtherConfigs, path \in OutputPaths }

AllWriteFailures == {"EACCES", "EROFS", "ENOENT", "ENOSPC"}

InitDownload ==
    /\ variant \in Variants
    /\ env \in Envs
    /\ Idle
    /\ \E d \in DirStates : Disk(d)

NextDownload ==
    \/ CallDownloadChart(1, DownloadRequests)
    \/ DownloadResolvePath(1)
    \/ DownloadDefaultPath(1)
    \/ DownloadDirChecked(1)
    \/ DownloadUrlSettled(1)
    \/ DownloadFetched(1, FetchOutcomes)
    \/ DownloadWritten(1, AllWriteFailures)

SpecDownload == InitDownload /\ [][NextDownload]_vars

-----------------------------------------------------------------------------
(* Concurrent download_chart invocations: the steps of different invocations interleave
   at their awaits, and the clock advances in between *)

\* most download_chart invocations in flight in one run
MaxDownloads == 2

Downloaders == 1..MaxDownloads

\* requests that rely on the default output path
ConcurrentDownloads ==
    { DownloadArgs(Obj(<< KV("type", Str("bar")), KV("datasets", DatasetsA) >>), Undef),
      DownloadArgs(Obj(<< KV("type", Str("bar")), KV("datasets", DatasetsB) >>), Undef),
      DownloadArgs(Obj(<< KV("type", Str("pie")), KV("datasets", DatasetsB) >>), Undef) }

NextDownloadConcurrent ==
    \/ Tick
    \/ \E i \in Downloaders :
         \/ CallDownloadChart(i, ConcurrentDownloads)
         \/ DownloadResolvePath(i)
         \/ DownloadDefaultPath(i)
         \/ DownloadDirChecked(i)
         \/ DownloadUrlSettled(i)
         \/ DownloadFetched(i, {Ok(ImageData)})
         \/ DownloadWritten(i, {"EACCES"})

SpecDownloadConcurrent == Init /\ [][NextDownloadConcurrent]_vars

-----------------------------------------------------------------------------
(* The JSON-RPC layer (handleRequest) and the HTTP transport *)

\* ErrorCode of the protocol library, by member name
ErrorCode ==
    [InvalidParams |-> 0 - 32602, InternalError |-> 0 - 32603, MethodNotFound |-> 0 - 32601]

\* error.code || ErrorCode.InternalError : an McpError carries its code, a TypeError none
CodeOf(error) ==
    IF IsMcpError(error) THEN ErrorCode[error.code] ELSE ErrorCode.InternalError

TypeError(message) == NativeError("", message)

\* { jsonrpc: '2.0', id: request.id, result } and { jsonrpc: '2.0', id: request.id, error }
ResultEnvelope(id, result) ==
    Obj(<< KV("jsonrpc", Str("2.0")), KV("id", id), KV("result", result) >>)

ErrorEnvelope(id, code, message) ==
    Obj(<< KV("jsonrpc", Str("2.0")), KV("id", id),
           KV("error", Obj(<< KV("code", Num(code)),
                              KV("message", Str(IF message # "" THEN message
                                                ELSE "Internal error")) >>)) >>)

\* the result of the initialize handshake
InitializeResult ==
    Obj(<< KV("protocolVersion", Str("2024-11-05")),
           KV("capabilities", Obj(<< KV("tools", EmptyObj) >>)),
           KV("serverInfo", Obj(<< KV("name", Str("quickchart-server")),
                                   KV("version", Str("1.0.0")) >>)) >>)

\* listToolsHandler: the two tools, by name (descriptions and schemas left out)
listToolsHandler ==
    Obj(<< KV("tools", Arr(<< Obj(<< KV("name", Str("generate_chart")) >>),
                              Obj(<< KV("name", Str("download_chart")) >>) >>)) >>)

\* the content a tool returned, as the value put in the envelope
ContentValue(content) ==
    Obj(<< KV("content",
              Arr([j \in 1..Len(content) |->
                     IF content[j].type = "text"
                     THEN Obj(<< KV("type", Str("text")), KV("text", Str(content[j].text)) >>)
                     ELSE Obj(<< KV("type", Str("image")), KV("data", Str(content[j].data)),
                                 KV("mimeType", Str(content[j].mimeType)) >>)])) >>)

Returned(envelope) == [kind |-> "envelope", envelope |-> envelope]
RejectedWith(error) == [kind |-> "rejected", error |-> error]
CallsTool(name, arguments) == [kind |-> "tool", name |-> name, arguments |-> arguments]

\* the catch block of handleRequest: the envelope made of the error
handleRequestCatch(rpc, error) ==
    Returned(ErrorEnvelope(Get(rpc, "id"), CodeOf(error), error.message))

\* handleRequest up to the call of a tool: the envelope it returns, the error it rejects
\* with, or the tool that callToolHandler runs.  Reading the method of null throws
\* inside the try, and the catch block throws again when it reads the id
handleRequest(rpc) ==
    IF rpc \in {Null, Undef}
    THEN RejectedWith(TypeError("Cannot read properties of null (reading 'id')"))
    ELSE LET id == Get(rpc, "id")
             method == Get(rpc, "method")
             params == Get(rpc, "params")
         IN IF method = Str("initialize") THEN Returned(ResultEnvelope(id, InitializeResult))
            ELSE IF method = Str("tools/list") THEN Returned(ResultEnvelope(id, listToolsHandler))
            ELSE IF method = Str("tools/call")
            THEN IF params \in {Null, Undef}
                 THEN handleRequestCatch(rpc,
                          TypeError("Cannot read properties of undefined (reading 'name')"))
                 ELSE IF Get(params, "name") \in {Str("generate_chart"), Str("download_chart")}
                 THEN CallsTool(Get(params, "name").v, Get(params, "arguments"))
                 ELSE handleRequestCatch(rpc,
                          McpError("MethodNotFound", "Unknown tool: " \o String(Get(params, "name"))))
            ELSE Returned(ErrorEnvelope(id, ErrorCode.MethodNotFound,
                                        "Method not found: " \o String(method)))

\* handleRequest after the tool has settled
ToolEnvelope(rpc, settled) ==
    IF settled.kind = "result"
    THEN ResultEnvelope(Get(rpc, "id"), ContentValue(settled.content))
    ELSE handleRequestCatch(rpc, settled.error).envelope

\* the request the transport makes up for a GET: { jsonrpc, id: 1, method: 'tools/list' }
ListRequest ==
    Obj(<< KV("jsonrpc", Str("2.0")), KV("id", Num(1)), KV("method", Str("tools/list")),
           KV("params", EmptyObj) >>)

\* the position after the string whose content starts at p, or 0 if it is not closed
SkipString(t, p) ==
    IF \E q \in p..Len(t) : ClosesString(t, q) THEN StringEnd(t, p) + 1 ELSE 0

IsLiteral(t, p, word) == p + Len(word) - 1 <= Len(t) /\ SubSeq(t, p, p + Len(word) - 1) = word

\* the position after the JSON value that starts at p in a compact text, or 0 if there is
\* no well-formed value
RECURSIVE SkipValue(_, _), SkipMembers(_, _), SkipElements(_, _)
SkipValue(t, p) ==
    IF p > Len(t) THEN 0
    ELSE LET c == Ch(t, p)
         IN CASE c = "{" -> IF IsLiteral(t, p, "{}") THEN p + 2 ELSE SkipMembers(t, p + 1)
              [] c = "[" -> IF IsLiteral(t, p, "[]") THEN p + 2 ELSE SkipElements(t, p + 1)
              [] c = "\"" -> SkipString(t, p + 1)
              [] c = "t" -> IF IsLiteral(t, p, "true") THEN p + 4 ELSE 0
              [] c = "f" -> IF IsLiteral(t, p, "false") THEN p + 5 ELSE 0
              [] c = "n" -> IF IsLiteral(t, p, "null") THEN p + 4 ELSE 0
              [] IsDigit(c) -> NumberEnd(t, p)
              [] c = "-" -> IF p < Len(t) /\ IsDigit(Ch(t, p + 1)) THEN NumberEnd(t, p + 1) ELSE 0
              [] OTHER -> 0

SkipMembers(t, p) ==
    IF p > Len(t) \/ Ch(t, p) # "\"" THEN 0
    ELSE LET e == SkipString(t, p + 1)
         IN IF e = 0 \/ e > Len(t) \/ Ch(t, e) # ":" THEN 0
            ELSE LET n == SkipValue(t, e + 1)
                 IN IF n = 0 \/ n > Len(t) THEN 0
                    ELSE IF Ch(t, n) = "}" THEN n + 1
                    ELSE IF Ch(t, n) = "," THEN SkipMembers(t, n + 1)
                    ELSE 0

SkipElements(t, p) ==
    LET n == SkipValue(t, p)
    IN IF n = 0 \/ n > Len(t) THEN 0
       ELSE IF Ch(t, n) = "]" THEN n + 1
       ELSE IF Ch(t, n) = "," THEN SkipElements(t, n + 1)
       ELSE 0

\* JSON.parse(body): the value, or the SyntaxError
JSONparseBody(body) ==
    IF SkipValue(body, 1) = Len(body) + 1
    THEN Ok(JSONparse(body))
    ELSE Failed(NativeError("", IF body = "" THEN "Unexpected end of JSON input"
                                ELSE "Unexpected token in JSON"))

\* the three headers set before routing, and those writeHead adds
CorsHeaders ==
    { <<"Access-Control-Allow-Origin", "*">>,
      <<"Access-Control-Allow-Methods", "GET, POST, OPTIONS">>,
      <<"Access-Control-Allow-Headers", "Content-Type">> }

JsonType == { <<"Content-Type", "application/json">> }

StreamHeaders(v) ==
    JsonType \cup { <<"Cache-Control", "no-cache">>, <<"Connection", "keep-alive">> }
    \cup (IF v = "part_000" THEN { <<"Access-Control-Allow-Origin", "*">> } ELSE {})

Liveness == Obj(<< KV("status", Str("ok")), KV("service", Str("quickchart-mcp-server")) >>)

ErrorBody(message) == Obj(<< KV("error", Str(message)) >>)

\* the body of the 500 answer of POST /mcp/stream
InternalErrorBody(message) ==
    Obj(<< KV("error", Obj(<< KV("code", Num(0 - 32603)),
                              KV("message", Str(IF message # "" THEN message
                                                ELSE "Internal error")) >>)) >>)

\* a request received, with nothing answered yet
Connection(method, path) ==
    [phase |-> "received", method |-> method, path |-> path, body |-> "", rpc |-> Undef,
     handled |-> [kind |-> "none"], status |-> 0, headers |-> CorsHeaders, payload |-> "",
     ends |-> 0]

\* res.writeHead(status, headers); res.end(JSON.stringify(value))
Respond(conn, status, headers, value) ==
    http' = [conn EXCEPT !.phase = "done", !.status = status,
                         !.headers = @ \cup headers,
                         !.payload = IF value = Undef THEN "" ELSE JSONstringify(value),
                         !.ends = @ + 1]

\* GET on /mcp/stream is served by the variants that came to HTTP from stdio
StreamServesGet(v) == v \in {"part_000", "index.ts"}

\* the request handler of http.createServer, up to its first await or to its answer
HttpRequest(Methods, Paths) ==
    /\ http.phase = "idle"
    /\ \E method \in Methods : \E path \in Paths :
         LET conn == Connection(method, path)
         IN IF method = "OPTIONS" THEN Respond(conn, 200, {}, Undef)
            ELSE IF path \in {"/health", "/"} THEN Respond(conn, 200, JsonType, Liveness)
            ELSE IF path = "/mcp/stream"
            THEN IF method = "POST" THEN http' = [conn EXCEPT !.phase = "body"]
                 ELSE IF method = "GET" /\ StreamServesGet(variant)
                 THEN http' = [conn EXCEPT !.phase = "list", !.rpc = ListRequest]
                 ELSE Respond(conn, 405, JsonType, ErrorBody("Method not allowed"))
            ELSE IF path = "/mcp/tools" /\ method = "GET"
            THEN http' = [conn EXCEPT !.phase = "list", !.rpc = ListRequest]
            ELSE Respond(conn, 404, JsonType, ErrorBody("Not found"))
    /\ UNCHANGED <<variant, env, pc, request, chartConfig, pending, response,
                   downloadLocals, world>>

\* handleRequest(tools/list) has settled for a GET: its envelope is the answer
HttpListed ==
    /\ http.phase = "list"
    /\ LET handled == handleRequest(http.rpc)
       IN Respond([http EXCEPT !.handled = handled], 200,
                  IF http.path = "/mcp/stream" THEN StreamHeaders(variant) ELSE JsonType,
                  handled.envelope)
    /\ UNCHANGED <<variant, env, pc, request, chartConfig, pending, response,
                   downloadLocals, world>>

\* the body stream of a POST on /mcp/stream has ended: JSON.parse, then handleRequest up to
\* its answer or to the call of a tool
HttpBodyEnd(Bodies) ==
    /\ http.phase = "body"
    /\ \E body \in Bodies :
         LET parsed == JSONparseBody(body)
             conn == [http EXCEPT !.body = body]
         IN IF ~parsed.ok
            THEN Respond(conn, 500, JsonType, InternalErrorBody(parsed.error.message))
            ELSE LET handled == handleRequest(parsed.data)
                     called == [conn EXCEPT !.rpc = parsed.data, !.handled = handled]
                 IN CASE handled.kind = "envelope" ->
                            Respond(called, 200, StreamHeaders(variant), handled.envelope)
                      [] handled.kind = "rejected" ->
                            Respond(called, 500, JsonType, InternalErrorBody(handled.error.message))
                      [] handled.kind = "tool" ->
                            http' = [called EXCEPT !.phase = "tool"]
    /\ UNCHANGED <<variant, env, pc, request, chartConfig, pending, response,
                   downloadLocals, world>>

\* callToolHandler({ params: request.params }) for the tool the request names
HttpCallTool ==
    /\ http.phase = "tool"
    /\ \/ http.handled.name = "generate_chart" /\ CallGenerateChart(1, {http.handled.arguments})
       \/ http.handled.name = "download_chart" /\ CallDownloadChart(1, {http.handled.arguments})

\* callToolHandler has settled: handleRequest returns the envelope, which is the answer
HttpToolSettled ==
    /\ http.phase = "tool"
    /\ pc[1] = "done"
    /\ LET envelope == ToolEnvelope(http.rpc, response[1])
       IN Respond([http EXCEPT !.handled = Returned(envelope)], 200, StreamHeaders(variant), envelope)
    /\ UNCHANGED <<variant, env, pc, request, chartConfig, pending, response,
                   downloadLocals, world>>

\* what a client may send
HttpMethods == {"GET", "POST", "OPTIONS", "DELETE"}
HttpPaths == {"/", "/health", "/mcp/stream", "/mcp/tools", "/favicon.ico"}

RpcRequest(id, method, params) ==
    ObjOf(<< KV("jsonrpc", Str("2.0")), KV("id", id), KV("method", Str(method)),
             KV("params", params) >>)

ToolCall(id, name, arguments) ==
    RpcRequest(id, "tools/call", ObjOf(<< KV("name", Str(name)), KV("arguments", arguments) >>))

\* the values a client may send as a body: no request object, every method, tool calls
\* that succeed and that fail
RpcValues ==
    { Null, Num(7), Arr(<<>>),
      RpcRequest(Num(1), "initialize", EmptyObj),
      RpcRequest(Num(2), "tools/list", Undef),
      RpcRequest(Undef, "tools/list", Undef),
      RpcRequest(Str("a"), "ping", Undef),
      RpcRequest(Num(4), "tools/call", Undef),
      ToolCall(Num(5), "render", EmptyObj),
      ToolCall(Num(6), "generate_chart", Undef),
      ToolCall(Num(7), "generate_chart",
               Obj(<< KV("type", Str("bar")), KV("datasets", DatasetsA) >>)),
      ToolCall(Num(8), "generate_chart",
               Obj(<< KV("type", Str("foo")), KV("datasets", DatasetsA) >>)),
      ToolCall(Num(9), "download_chart", Undef),
      ToolCall(Str("b"), "download_chart",
               DownloadArgs(Obj(<< KV("data", Obj(<< KV("type", Str("line")),
                                                     KV("datasets", DatasetsB) >>)) >>),
                            Str("/out/chart.png"))),
      ToolCall(Num(11), "download_chart",
               DownloadArgs(Obj(<< KV("type", Str("pie")), KV("datasets", DatasetsA) >>),
                            Str("/missing/chart.png"))),
      ToolCall(Num(12), "download_chart",
               DownloadArgs(Obj(<< KV("type", Str("bar")), KV("datasets", DatasetsA) >>),
                            Undef)) }

\* the bodies: the text of each value, and texts that are not JSON
Bodies == {"", "{\"jsonrpc\":", "tools/list"} \cup { JSONstringify(v) : v \in RpcValues }

NextHttp ==
    \/ HttpRequest(HttpMethods, HttpPaths)
    \/ HttpListed
    \/ HttpBodyEnd(Bodies)
    \/ HttpCallTool
    \/ SettleGenerateChart(1)
    \/ DownloadResolvePath(1)
    \/ DownloadDefaultPath(1)
    \/ DownloadDirChecked(1)
    \/ DownloadUrlSettled(1)
    \/ DownloadFetched(1, FetchOutcomes)
    \/ DownloadWritten(1, AllWriteFailures)
    \/ HttpToolSettled

SpecHttp == Init /\ [][NextHttp]_vars

-----------------------------------------------------------------------------
(* Properties of generate_chart on chart requests (specification Spec) *)

Finished(i) == pc[i] = "done" /\ request[i].name = "generate_chart"
ArgsOf(i) == request[i].arguments
TypeOf(i) == Get(ArgsOf(i), "type")
DatasetsOf(i) == Get(ArgsOf(i), "datasets")
FailedWith(i, code) == response[i].kind = "error" /\ response[i].error.code = code
Succeeded(i) == response[i].kind = "result"
UrlOf(i) == response[i].content[1].text

\* the twelve chart types of the specification
TwelveTypes ==
    <<"bar", "line", "pie", "doughnut", "radar", "polarArea", "scatter", "bubble",
      "radialGauge", "speedometer", "graphviz", "wordcloud">>

IsOneOf(x, names) == x.k = "string" /\ \E j \in 1..Len(names) : names[j] = x.v

ChartFamily == SubSeq(TwelveTypes, 1, 10)
GaugeTypes == <<"radialGauge", "speedometer">>
PointTypes == <<"scatter", "bubble">>

\* C1: a non-empty type that is not one of the twelve valid values makes generate_chart
\* fail with InvalidParams and a message that enumerates all twelve valid values,
\* whatever the other arguments are (datasets present or not).
C1_InvalidTypeNamesAllTwelve ==
    \A i \in Invocations :
        (Finished(i) /\ Truthy(TypeOf(i)) /\ ~IsOneOf(TypeOf(i), TwelveTypes))
        => /\ FailedWith(i, "InvalidParams")
           /\ response[i].error.message
                = "Invalid chart type. Must be one of: " \o Join(TwelveTypes, ", ")

\* C1 as the twelve-type variant alone satisfies it
C1_InvalidTypeInTwelveTypeVariant == variant = "part_000" => C1_InvalidTypeNamesAllTwelve

C1_Witness ==
    /\ variant = "part_000"
    /\ Finished(1) /\ TypeOf(1) = Str("foo") /\ DatasetsOf(1) = Undef
    /\ FailedWith(1, "InvalidParams")

LacksData(d) == d \in {Null, Undef} \/ ~Has(d, "data")

\* C2: for every chart-family type, generate_chart fails with InvalidParams when datasets
\* is absent or not a sequence, and when any element of datasets is absent/null or has no
\* data field; no URL is returned in either case.
C2_DatasetsRequired ==
    \A i \in Invocations :
        (/\ Finished(i) /\ IsOneOf(TypeOf(i), ChartFamily)
         /\ \/ ~IsArray(DatasetsOf(i))
            \/ \E j \in 1..Len(DatasetsOf(i).v) : LacksData(DatasetsOf(i).v[j]))
        => FailedWith(i, "InvalidParams") /\ ~Succeeded(i)

C2_Witness ==
    /\ Finished(1) /\ TypeOf(1) = Str("bar")
    /\ IsArray(DatasetsOf(1)) /\ Len(DatasetsOf(1).v) = 2
    /\ ~LacksData(DatasetsOf(1).v[1]) /\ LacksData(DatasetsOf(1).v[2])
    /\ Has(DatasetsOf(1).v[2], "label")
    /\ FailedWith(1, "InvalidParams")

\* the first data element of the first dataset, Undef when any part of the path is missing
FirstReading(i) == Index(Get(Index(DatasetsOf(i), 0), "data"), 0)

IsNonZeroNumber(x) == x.k = "number" /\ x.v # 0

CarriesValueLabelPlugin(config) ==
    Get(Get(Get(Get(config, "options"), "plugins"), "datalabels"), "display") = Bool(TRUE)

GaugeFailure(i) ==
    (Finished(i) /\ IsOneOf(TypeOf(i), GaugeTypes) /\ FirstReading(i) \in {Num(0), Null, Undef})
    => FailedWith(i, "InvalidParams")

\* C3 (as claimed): for radialGauge and speedometer the request fails with InvalidParams
\* whenever the first data element of the first dataset is 0, null or absent, and
\* succeeds, with the value-label plugin block in the options, when it is a non-zero number.
C3_GaugeReading ==
    \A i \in Invocations :
        /\ GaugeFailure(i)
        /\ (Finished(i) /\ IsOneOf(TypeOf(i), GaugeTypes) /\ IsNonZeroNumber(FirstReading(i)))
           => Succeeded(i) /\ CarriesValueLabelPlugin(chartConfig[i])

\* C3 (amended): ... and succeeds, with the value-label plugin block in the options, when
\* it is a non-zero number and every dataset has a data field.
C3_GaugeReadingAllDatasetsHaveData ==
    \A i \in Invocations :
        /\ GaugeFailure(i)
        /\ (/\ Finished(i) /\ IsOneOf(TypeOf(i), GaugeTypes) /\ IsNonZeroNumber(FirstReading(i))
            /\ \A j \in 1..Len(DatasetsOf(i).v) : Truthy(Get(DatasetsOf(i).v[j], "data")))
           => Succeeded(i) /\ CarriesValueLabelPlugin(chartConfig[i])

C3_Witness ==
    /\ Finished(1) /\ TypeOf(1) = Str("speedometer")
    /\ IsArray(DatasetsOf(1)) /\ Len(DatasetsOf(1).v) = 2 /\ FirstReading(1) = Num(5)
    /\ Succeeded(1) /\ CarriesValueLabelPlugin(chartConfig[1])

FirstPoint(d) == Index(Get(d, "data"), 0)

\* C4: for scatter and bubble the request succeeds only if the first data element of every
\* dataset (not just the first) is a sequence; if the first data element of any dataset is a
\* bare number or is missing, the request fails with InvalidParams.
C4_PointFormat ==
    \A i \in Invocations :
        (Finished(i) /\ IsOneOf(TypeOf(i), PointTypes))
        => /\ Succeeded(i) =>
                /\ IsArray(DatasetsOf(i))
                /\ \A j \in 1..Len(DatasetsOf(i).v) : IsArray(FirstPoint(DatasetsOf(i).v[j]))
           /\ (/\ IsArray(DatasetsOf(i))
               /\ \E j \in 1..Len(DatasetsOf(i).v) :
                     FirstPoint(DatasetsOf(i).v[j]).k \in {"number", "undefined"})
              => FailedWith(i, "InvalidParams")

C4_Witness ==
    /\ Finished(1) /\ TypeOf(1) = Str("bubble")
    /\ IsArray(DatasetsOf(1)) /\ Len(DatasetsOf(1).v) = 2
    /\ IsArray(FirstPoint(DatasetsOf(1).v[1]))
    /\ FirstPoint(DatasetsOf(1).v[2]) = Num(5)
    /\ FailedWith(1, "InvalidParams")

\* a structure without the object members whose value is undefined (a deep comparison
\* that takes a missing member and an undefined one for the same)
RECURSIVE WithoutUndefined(_)
WithoutUndefined(x) ==
    CASE x.k = "object" ->
            LET kept == SelectSeq(x.v, LAMBDA e : e.val # Undef)
            IN Obj([j \in 1..Len(kept) |-> KV(kept[j].key, WithoutUndefined(kept[j].val))])
      [] x.k = "array" -> Arr([j \in 1..Len(x.v) |-> WithoutUndefined(x.v[j])])
      [] OTHER -> x

SameStructure(a, b) == WithoutUndefined(a) = WithoutUndefined(b)

\* what a test harness reads back from the c parameter of a chart URL
DecodedConfig(url, base) ==
    JSONparse(decodeURIComponent(SubSeq(url, Len(base) + 4, Len(url))))

HasChartUrlShape(url, base) ==
    /\ Len(url) > Len(base) + 3
    /\ SubSeq(url, 1, Len(base) + 3) = base \o "?c="

BuiltChart(i) == Finished(i) /\ Succeeded(i) /\ IsOneOf(TypeOf(i), ChartFamily)

\* C9: for every ChartConfig the builder returns for a chart-family type the URL is
\* <chart base>?c=<percent-encoded serialized config>, and percent-decoding then parsing
\* the c parameter yields a structure identical to that ChartConfig, the dataset styling
\* fields and the gauge plugin block included.
C9_RoundTrip ==
    \A i \in Invocations :
        BuiltChart(i)
        => /\ HasChartUrlShape(UrlOf(i), env.chart)
           /\ SameStructure(DecodedConfig(UrlOf(i), env.chart), chartConfig[i])

\* C9 outside the gauge types: the round trip gives the ChartConfig back
C9_RoundTripExceptGauges ==
    \A i \in Invocations :
        (BuiltChart(i) /\ ~IsOneOf(TypeOf(i), GaugeTypes))
        => /\ HasChartUrlShape(UrlOf(i), env.chart)
           /\ SameStructure(DecodedConfig(UrlOf(i), env.chart), chartConfig[i])

\* C9 for the gauge types: all that the round trip loses is the formatter function
C9_GaugeLosesFormatter ==
    \A i \in Invocations :
        (BuiltChart(i) /\ IsOneOf(TypeOf(i), GaugeTypes))
        => SameStructure(
               DecodedConfig(UrlOf(i), env.chart),
               SetKey(chartConfig[i], "options",
                      SetKey(Get(chartConfig[i], "options"), "plugins",
                             Obj(<< KV("datalabels", Obj(<< KV("display", Bool(TRUE)) >>)) >>))))

IsString(x) == x.k = "string"

Keys(o) == IF o.k = "object" THEN {o.v[j].key : j \in 1..Len(o.v)} ELSE {}

OutDatasets(i) == Get(Get(chartConfig[i], "data"), "datasets")

DatasetFields == {"label", "data", "backgroundColor", "borderColor"}

\* what the claim gives field f of the output dataset built from the caller's dataset d
ClaimedField(d, f) ==
    IF Has(Get(d, "additionalConfig"), f) THEN Get(Get(d, "additionalConfig"), f)
    ELSE IF f = "label" /\ ~Has(d, "label") THEN Str("")
    ELSE Get(d, f)

\* C11: for every chart-family request each output dataset has the caller's label, or the
\* empty string when absent, the caller's data, backgroundColor and borderColor, and then
\* every key of the dataset's additionalConfig overrides the field of the same name (label,
\* data, backgroundColor and borderColor included); the output has one dataset per input
\* dataset, in the same order.
C11_DatasetNormalized ==
    \A i \in Invocations :
        BuiltChart(i)
        => /\ IsArray(OutDatasets(i))
           /\ Len(OutDatasets(i).v) = Len(DatasetsOf(i).v)
           /\ \A j \in 1..Len(DatasetsOf(i).v) :
                \A f \in DatasetFields \cup Keys(Get(DatasetsOf(i).v[j], "additionalConfig")) :
                    Get(OutDatasets(i).v[j], f) = ClaimedField(DatasetsOf(i).v[j], f)

\* two datasets, the second with an additionalConfig that overrides the four fields
C11_Witness ==
    /\ BuiltChart(1) /\ TypeOf(1) = Str("line")
    /\ Len(DatasetsOf(1).v) = 2
    /\ ~Has(DatasetsOf(1).v[1], "label") /\ Get(OutDatasets(1).v[1], "label") = Str("")
    /\ Get(DatasetsOf(1).v[2], "label") = Str("A")
    /\ Get(OutDatasets(1).v[2], "label") = Str("B")
    /\ Get(OutDatasets(1).v[2], "data") = Arr(<< Num(7), Num(8) >>)

OutOptions(i) == Get(chartConfig[i], "options")
CallerOptions(i) == IF Has(ArgsOf(i), "options") THEN Get(ArgsOf(i), "options") ELSE EmptyObj
TitleOf(i) == Get(ArgsOf(i), "title")
TitleBlock(title) == Obj(<< KV("display", Bool(TRUE)), KV("text", title) >>)

\* C12 (as claimed): for every chart-family request the output options equal the caller's
\* options (the empty mapping when absent) with, when a title string was supplied, the key
\* title set to {display: true, text: <title>}, replacing any title key of the caller's
\* options; when no title was supplied the output has no derived title block.
C12_OptionsMerged ==
    \A i \in Invocations :
        BuiltChart(i)
        => /\ Keys(OutOptions(i))
                = Keys(CallerOptions(i)) \cup (IF IsString(TitleOf(i)) THEN {"title"} ELSE {})
           /\ \A key \in Keys(OutOptions(i)) :
                Get(OutOptions(i), key)
                    = IF key = "title" /\ IsString(TitleOf(i)) THEN TitleBlock(TitleOf(i))
                      ELSE Get(CallerOptions(i), key)

\* C12 (amended): ... when a non-empty title string was supplied, the key title is set to
\* {display: true, text: <title>}; for radialGauge and speedometer the key plugins is set
\* to the fixed plugin block as well; with no title, or an empty one, there is no derived
\* title block.
C12_OptionsMergedNonEmptyTitle ==
    \A i \in Invocations :
        BuiltChart(i)
        => LET titled == IsNonEmptyString(TitleOf(i))
               gauge == IsOneOf(TypeOf(i), GaugeTypes)
           IN /\ Keys(OutOptions(i))
                   = Keys(CallerOptions(i)) \cup (IF titled THEN {"title"} ELSE {})
                                            \cup (IF gauge THEN {"plugins"} ELSE {})
              /\ \A key \in Keys(OutOptions(i)) :
                   IF key = "title" /\ titled
                   THEN Get(OutOptions(i), key) = TitleBlock(TitleOf(i))
                   ELSE IF key = "plugins" /\ gauge
                   THEN CarriesValueLabelPlugin(chartConfig[i])
                   ELSE Get(OutOptions(i), key) = Get(CallerOptions(i), key)

\* a title supplied together with options that hold a title of their own
C12_Witness ==
    /\ BuiltChart(1) /\ TypeOf(1) = Str("bar")
    /\ TitleOf(1) = Str("Q 1")
    /\ Get(CallerOptions(1), "title") = Str("old")
    /\ Get(OutOptions(1), "title") = TitleBlock(Str("Q 1"))
    /\ Has(OutOptions(1), "legend")

CallerPlugins(i) == Get(CallerOptions(i), "plugins")
OutPlugins(i) == Get(OutOptions(i), "plugins")

\* C26: for radialGauge and speedometer, merging the fixed plugin block preserves the
\* caller's options: every key of the caller's options other than plugins, the derived
\* title block, and every entry of the caller's options.plugins other than datalabels are
\* still present in the output options.
C26_GaugeOptionsPreserved ==
    \A i \in Invocations :
        (BuiltChart(i) /\ IsOneOf(TypeOf(i), GaugeTypes))
        => /\ \A key \in Keys(CallerOptions(i)) \ {"plugins", "title"} :
                 Get(OutOptions(i), key) = Get(CallerOptions(i), key)
           /\ IsNonEmptyString(TitleOf(i)) => Get(OutOptions(i), "title") = TitleBlock(TitleOf(i))
           /\ \A entry \in Keys(CallerPlugins(i)) \ {"datalabels"} :
                 Get(OutPlugins(i), entry) = Get(CallerPlugins(i), entry)

\* what the generate_chart of variant v answers to the arguments of invocation i
AnswerOf(v, i) == GenerateChartOutcome(v, env, ArgsOf(i)).settled

\* C28: for every argument object whose type is not graphviz or wordcloud the three
\* implementations of generate_chart agree: either all three return the same URL, or all
\* three fail with the same error kind, although they check datasets and the validity of
\* type in a different order.
C28_VariantsAgree ==
    \A i \in Invocations :
        (Finished(i) /\ TypeOf(i) \notin {Str("graphviz"), Str("wordcloud")})
        => \A v \in Variants :
              IF Succeeded(i)
              THEN AnswerOf(v, i) = Return(UrlOf(i))
              ELSE /\ ~AnswerOf(v, i).ok
                   /\ AnswerOf(v, i).error.code = response[i].error.code

\* an invalid type without datasets: the variants fail on different checks, with the
\* same error kind
C28_Witness ==
    /\ Finished(1) /\ TypeOf(1) = Str("foo") /\ DatasetsOf(1) = Undef
    /\ FailedWith(1, "InvalidParams")
    /\ AnswerOf("part_000", 1).error.message = InvalidTypeMessage("part_000")
    /\ AnswerOf("index.ts", 1).error.message = "Datasets must be a non-empty array"
    /\ AnswerOf("http-server.ts", 1).error.message = "Datasets must be a non-empty array"

\* the request carries no data: no dataset at all, or a dataset whose data is empty
NoData(i) ==
    /\ IsArray(DatasetsOf(i))
    /\ \/ DatasetsOf(i) = Arr(<<>>)
       \/ \E j \in 1..Len(DatasetsOf(i).v) :
              /\ DatasetsOf(i).v[j].k = "object"
              /\ Get(DatasetsOf(i).v[j], "data") = Arr(<<>>)

\* C30: generate_chart never returns a chart URL with no data: for every chart-family
\* type, a request whose datasets is an empty sequence, or whose dataset has an empty data
\* sequence, fails with InvalidParams.
C30_NoEmptyData ==
    \A i \in Invocations :
        (Finished(i) /\ IsOneOf(TypeOf(i), ChartFamily) /\ NoData(i))
        => FailedWith(i, "InvalidParams")

\* what does hold: the two gauge types refuse a request with no dataset, or with a first
\* dataset whose data is empty (later datasets are not looked at)
C30_GaugesRefuseEmptyFirstData ==
    \A i \in Invocations :
        (/\ Finished(i) /\ IsOneOf(TypeOf(i), GaugeTypes) /\ IsArray(DatasetsOf(i))
         /\ \/ DatasetsOf(i) = Arr(<<>>)
            \/ /\ DatasetsOf(i).v[1].k = "object"
               /\ Get(DatasetsOf(i).v[1], "data") = Arr(<<>>))
        => FailedWith(i, "InvalidParams")

-----------------------------------------------------------------------------
(* Properties of generate_chart on graphviz and wordcloud requests
   (specification SpecText) *)

\* C5: for graphviz the request fails with InvalidParams if dot is absent or not a
\* string, for wordcloud if text is absent or not a string; the dataset checks are
\* bypassed for both, so a request with a valid dot or text succeeds without datasets.
C5_DotAndTextRequired ==
    \A i \in Invocations :
        (Finished(i) /\ variant = "part_000")
        => /\ (TypeOf(i) = Str("graphviz") /\ ~IsString(Get(ArgsOf(i), "dot")))
                => FailedWith(i, "InvalidParams")
           /\ (TypeOf(i) = Str("wordcloud") /\ ~IsString(Get(ArgsOf(i), "text")))
                => FailedWith(i, "InvalidParams")
           /\ (TypeOf(i) = Str("graphviz") /\ IsNonEmptyString(Get(ArgsOf(i), "dot")))
                => Succeeded(i)
           /\ (TypeOf(i) = Str("wordcloud") /\ IsNonEmptyString(Get(ArgsOf(i), "text")))
                => Succeeded(i)

C5_Witness ==
    /\ variant = "part_000" /\ Finished(1)
    /\ TypeOf(1) = Str("graphviz") /\ ~Has(ArgsOf(1), "datasets")
    /\ IsNonEmptyString(Get(ArgsOf(1), "dot"))
    /\ Succeeded(1)

GraphvizLayoutOf(i) == Get(ArgsOf(i), "graphvizLayout")
GraphvizFormatOf(i) == Get(ArgsOf(i), "graphvizFormat")

GraphvizDone(i) == Finished(i) /\ variant = "part_000" /\ TypeOf(i) = Str("graphviz")

\* C6 (as claimed): for graphviz with a string dot the URL is exactly
\* <graph base>?graph=<percent-encoded dot>&layout=<layout>&format=<format>, the layout
\* being the caller's graphvizLayout or "dot" when none was supplied and the format the
\* caller's graphvizFormat or "png" when none was supplied.
C6_GraphvizUrl ==
    \A i \in Invocations :
        (GraphvizDone(i) /\ IsString(Get(ArgsOf(i), "dot")))
        => /\ Succeeded(i)
           /\ UrlOf(i) = env.graphviz \o "?graph=" \o encodeURIComponent(Get(ArgsOf(i), "dot").v)
                           \o "&layout=" \o (IF Has(ArgsOf(i), "graphvizLayout")
                                             THEN GraphvizLayoutOf(i).v ELSE "dot")
                           \o "&format=" \o (IF Has(ArgsOf(i), "graphvizFormat")
                                             THEN GraphvizFormatOf(i).v ELSE "png")

\* the caller's string, or the default when it is absent or the empty string
OrDefault(x, default) == IF IsNonEmptyString(x) THEN x.v ELSE default

\* C6 (amended): for graphviz with a non-empty string dot the URL is exactly
\* <graph base>?graph=<percent-encoded dot>&layout=<layout>&format=<format>, the layout
\* being the caller's graphvizLayout, or "dot" when it is absent or the empty string, and
\* the format the caller's graphvizFormat, or "png" when it is absent or the empty string.
C6_GraphvizUrlNonEmpty ==
    \A i \in Invocations :
        (/\ GraphvizDone(i) /\ IsNonEmptyString(Get(ArgsOf(i), "dot"))
         /\ GraphvizLayoutOf(i) = Undef \/ IsString(GraphvizLayoutOf(i))
         /\ GraphvizFormatOf(i) = Undef \/ IsString(GraphvizFormatOf(i)))
        => /\ Succeeded(i)
           /\ UrlOf(i) = env.graphviz \o "?graph=" \o encodeURIComponent(Get(ArgsOf(i), "dot").v)
                           \o "&layout=" \o OrDefault(GraphvizLayoutOf(i), "dot")
                           \o "&format=" \o OrDefault(GraphvizFormatOf(i), "png")

C6_Witness ==
    /\ Finished(1) /\ TypeOf(1) = Str("graphviz")
    /\ Get(ArgsOf(1), "dot") = Str("digraph G { A -> B; }")
    /\ ~Has(ArgsOf(1), "graphvizLayout") /\ Get(ArgsOf(1), "graphvizFormat") = Str("svg")
    /\ Succeeded(1)
    /\ UrlOf(1) = "https://quickchart.io/graphviz?graph=digraph%20G%20%7B%20A%20-%3E%20B%3B%20%7D&layout=dot&format=svg"

\* the pieces of s between the occurrences of the character sep
SplitAt(s, sep) ==
    LET seps == {j \in 1..Len(s) : Ch(s, j) = sep}
        n == Cardinality(seps) + 1
        SepPos(m) == IF m = 0 THEN 0
                     ELSE IF m = n THEN Len(s) + 1
                     ELSE CHOOSE j \in seps : Cardinality({q \in seps : q < j}) = m - 1
    IN [m \in 1..n |-> SubSeq(s, SepPos(m - 1) + 1, SepPos(m) - 1)]

\* the reading of an application/x-www-form-urlencoded name or value
FormDecode(s) ==
    decodeURIComponent(ConcatAll([j \in 1..Len(s) |-> IF Ch(s, j) = "+" THEN " " ELSE Ch(s, j)]))

\* the name of a name=value piece, and its value
NameOf(piece) == FormDecode(SplitAt(piece, "=")[1])
ValueOf(piece) == FormDecode(SubSeq(piece, Len(SplitAt(piece, "=")[1]) + 2, Len(piece)))

\* the query string of a URL on the endpoint base, as its name=value pieces
QueryPieces(url, base) == SplitAt(SubSeq(url, Len(base) + 2, Len(url)), "&")

\* the names of the pieces, as a sequence
NamesOf(pieces) == SubSeq([j \in 1..Len(pieces) |-> NameOf(pieces[j])], 1, Len(pieces))

\* the optional wordcloud query parameters in the order the claim fixes; each is read from
\* the argument of the same name, format from wordcloudFormat
FixedOrder ==
    <<"format", "width", "height", "backgroundColor", "fontFamily", "fontWeight",
      "loadGoogleFonts", "fontScale", "scale", "padding", "rotation", "maxNumWords",
      "minWordLength", "case", "colors", "removeStopwords", "cleanWords", "language",
      "useWordList">>

ArgumentFor(name) == IF name = "format" THEN "wordcloudFormat" ELSE name

PositionIn(names, name) == CHOOSE j \in 1..Len(names) : names[j] = name

WordcloudDone(i) ==
    Finished(i) /\ variant = "part_000" /\ TypeOf(i) = Str("wordcloud") /\ Succeeded(i)

\* C7: the query string of a wordcloud URL starts with text and then holds only optional
\* parameters the caller supplied, in the fixed order whatever the key order of the
\* arguments; a parameter the caller did not supply never appears.
C7_WordcloudQueryOrder ==
    \A i \in Invocations :
        WordcloudDone(i)
        => LET pieces == QueryPieces(UrlOf(i), env.wordcloud)
               names == NamesOf(pieces)
           IN /\ SubSeq(UrlOf(i), 1, Len(env.wordcloud) + 1) = env.wordcloud \o "?"
              /\ names[1] = "text"
              /\ \A j \in 2..Len(names) :
                    /\ \E q \in 1..Len(FixedOrder) : FixedOrder[q] = names[j]
                    /\ Has(ArgsOf(i), ArgumentFor(names[j]))
              /\ \A a \in 2..Len(names) : \A b \in 2..Len(names) :
                    a < b => PositionIn(FixedOrder, names[a]) < PositionIn(FixedOrder, names[b])

\* two optional parameters appended, from arguments that list them in the opposite order
C7_Witness ==
    /\ WordcloudDone(1)
    /\ Len(QueryPieces(UrlOf(1), env.wordcloud)) = 3
    /\ ArgsOf(1).v[1].key = "maxNumWords" /\ ArgsOf(1).v[2].key = "width"
    /\ NameOf(QueryPieces(UrlOf(1), env.wordcloud)[2]) = "width"
    /\ NameOf(QueryPieces(UrlOf(1), env.wordcloud)[3]) = "maxNumWords"

\* the string form the claim gives a supplied value: a sequence as a JSON array string,
\* numbers and booleans (and strings) in their string form
StringForm(x) == IF IsArray(x) THEN JSONstringify(x) ELSE String(x)

HasPiece(pieces, name, value) ==
    \E j \in 2..Len(pieces) : NameOf(pieces[j]) = name /\ ValueOf(pieces[j]) = value

\* C8: every optional parameter of the list that is present in the arguments is appended
\* to the query string, whatever its value: numbers and booleans in their string form, a
\* colors sequence as a JSON array string.
C8_PresentParametersAppended ==
    \A i \in Invocations :
        WordcloudDone(i)
        => \A q \in 1..Len(FixedOrder) :
              Has(ArgsOf(i), ArgumentFor(FixedOrder[q]))
              => HasPiece(QueryPieces(UrlOf(i), env.wordcloud), FixedOrder[q],
                          StringForm(Get(ArgsOf(i), ArgumentFor(FixedOrder[q]))))

\* what the code does instead: removeStopwords, cleanWords and useWordList are appended
\* whenever present, every other parameter only when its value is truthy
AlwaysAppended == {"removeStopwords", "cleanWords", "useWordList"}

C8_TruthyParametersAppended ==
    \A i \in Invocations :
        WordcloudDone(i)
        => \A q \in 1..Len(FixedOrder) :
              LET name == FixedOrder[q]
                  value == Get(ArgsOf(i), ArgumentFor(name))
                  pieces == QueryPieces(UrlOf(i), env.wordcloud)
              IN IF Has(ArgsOf(i), ArgumentFor(name)) /\ (name \in AlwaysAppended \/ Truthy(value))
                 THEN HasPiece(pieces, name, StringForm(value))
                 ELSE \A j \in 2..Len(pieces) : NameOf(pieces[j]) # name

\* the enumerated values of the input schema
GraphvizLayouts == {"dot", "neato", "fdp", "sfdp", "twopi", "circo"}
GraphvizFormats == {"png", "svg", "jpg", "pdf"}

\* the value of the first query parameter of this name
ParameterOf(pieces, name) ==
    ValueOf(pieces[CHOOSE j \in 1..Len(pieces) : NameOf(pieces[j]) = name])

\* C29: for type graphviz the layout and format values placed in the URL are always
\* members of the enumerated sets (layout in dot, neato, fdp, sfdp, twopi, circo; format in
\* png, svg, jpg, pdf), so the returned URL always has exactly the three query parameters
\* graph, layout and format, for every caller-supplied graphvizLayout and graphvizFormat.
C29_GraphvizEnumerated ==
    \A i \in Invocations :
        (GraphvizDone(i) /\ Succeeded(i))
        => LET pieces == QueryPieces(UrlOf(i), env.graphviz)
           IN /\ NamesOf(pieces) = <<"graph", "layout", "format">>
              /\ ParameterOf(pieces, "layout") \in GraphvizLayouts
              /\ ParameterOf(pieces, "format") \in GraphvizFormats

-----------------------------------------------------------------------------
(* Properties of download_chart (specification SpecDownload) *)

Download(i) == request[i].name = "download_chart"
DownloadDone(i) == Download(i) /\ pc[i] = "done"
ConfigArg(i) == Get(ArgsOf(i), "config")
NestedIn(config, key) == Get(Get(config, "data"), key)
Normalized(i) == Download(i) /\ normalizedConfig[i] # Undef
LiftedKeys == {"type", "datasets", "labels"}

OtherKeysUnchanged(config, n) ==
    /\ Keys(n) \subseteq Keys(config) \cup LiftedKeys
    /\ \A key \in Keys(config) \ LiftedKeys : Get(n, key) = Get(config, key)

\* C13 (as claimed): in the normalization of download_chart each of type, datasets and
\* labels keeps the caller's top-level value whenever the caller supplied one, and takes the
\* value nested under data only when the top-level field is absent; a nested value never
\* replaces a supplied top-level value, and all other keys of the config are unchanged.
C13_TopLevelWins ==
    \A i \in Invocations :
        Normalized(i)
        => /\ \A key \in LiftedKeys :
                IF Has(ConfigArg(i), key)
                THEN Get(normalizedConfig[i], key) = Get(ConfigArg(i), key)
                ELSE Get(normalizedConfig[i], key) \in {NestedIn(ConfigArg(i), key), Undef}
           /\ OtherKeysUnchanged(ConfigArg(i), normalizedConfig[i])

\* C13 (amended): each of type, datasets and labels keeps the caller's top-level value
\* whenever that value is truthy, and takes the truthy value nested under data when the
\* top-level field is absent or falsy (null, the empty string, 0, false); a nested value
\* never replaces a truthy top-level value, and all other keys are unchanged.
C13_TruthyTopLevelWins ==
    \A i \in Invocations :
        Normalized(i)
        => /\ \A key \in LiftedKeys :
                IF Truthy(Get(ConfigArg(i), key)) \/ ~Truthy(NestedIn(ConfigArg(i), key))
                THEN Get(normalizedConfig[i], key) = Get(ConfigArg(i), key)
                ELSE Get(normalizedConfig[i], key) = NestedIn(ConfigArg(i), key)
           /\ OtherKeysUnchanged(ConfigArg(i), normalizedConfig[i])

\* type and datasets given at both levels, labels nested only
C13_Witness ==
    /\ Normalized(1)
    /\ Get(ConfigArg(1), "type") = Str("bar") /\ NestedIn(ConfigArg(1), "type") = Str("line")
    /\ Get(ConfigArg(1), "datasets") = DatasetsA /\ NestedIn(ConfigArg(1), "datasets") = DatasetsB
    /\ ~Has(ConfigArg(1), "labels") /\ Truthy(NestedIn(ConfigArg(1), "labels"))
    /\ Get(normalizedConfig[1], "type") = Str("bar")
    /\ Get(normalizedConfig[1], "datasets") = DatasetsA
    /\ Get(normalizedConfig[1], "labels") = NestedIn(ConfigArg(1), "labels")

\* missing as the code tests it: absent or falsy
Missing(n, key) == ~Truthy(Get(n, key))

\* C14: download_chart fails with InvalidParams whenever type or datasets is still missing
\* after normalization, and does so before any filesystem access, remote fetch or write.
C14_MissingAfterNormalization ==
    \A i \in Invocations :
        (Normalized(i) /\ (Missing(normalizedConfig[i], "type") \/ Missing(normalizedConfig[i], "datasets")))
        => /\ pc[i] = "done"
           /\ FailedWith(i, "InvalidParams")
           /\ io[i] = <<>>
           /\ files = {} /\ written = {}

\* a type at top level and labels under data, but no datasets anywhere
C14_Witness ==
    /\ DownloadDone(1) /\ Normalized(1)
    /\ Get(normalizedConfig[1], "type") = Str("bar")
    /\ Truthy(NestedIn(ConfigArg(1), "labels"))
    /\ ~Has(normalizedConfig[1], "datasets")
    /\ FailedWith(1, "InvalidParams")

\* a config with its datasets (and labels) nested under data and none at top level
NestedOnly(config) ==
    /\ Has(config, "data") /\ Get(config, "data").k = "object"
    /\ ~Has(config, "datasets") /\ ~Has(config, "labels")
    /\ Has(Get(config, "data"), "datasets")

\* the equivalent flat config: datasets and labels at top level, no data member
FlatOf(config) ==
    LET data == Get(config, "data")
    IN Obj(SelectSeq(config.v, LAMBDA e : e.key # "data")
           \o << KV("datasets", Get(data, "datasets")) >>
           \o (IF Has(data, "labels") THEN << KV("labels", Get(data, "labels")) >> ELSE <<>>))

\* the builder has run in invocation i
Encoded(i) == pending[i] # Return("")

\* what download_chart builds and encodes for a config, once it gets that far
DownloadEncodes(config) ==
    LET built == generateChartConfig(variant, Normalize(config))
    IN IF built.ok THEN generateChartUrl(variant, env, built.value, Undef) ELSE built

\* C15: for every chart-family config, download_chart given the config with datasets (and
\* labels) nested under data and none at top level builds exactly the same URL as
\* download_chart given the equivalent flat config, and that URL is the one generate_chart
\* returns for the flat arguments.
C15_NestedSameAsFlat ==
    \A i \in Invocations :
        (/\ Download(i) /\ Encoded(i)
         /\ NestedOnly(ConfigArg(i)) /\ IsOneOf(Get(ConfigArg(i), "type"), ChartFamily))
        => /\ pending[i] = DownloadEncodes(FlatOf(ConfigArg(i)))
           /\ pending[i] = GenerateChartOutcome(variant, env, FlatOf(ConfigArg(i))).settled

C15_Witness ==
    /\ DownloadDone(1) /\ NestedOnly(ConfigArg(1))
    /\ Get(ConfigArg(1), "type") = Str("bar")
    /\ Has(Get(ConfigArg(1), "data"), "labels")
    /\ Succeeded(1)
    /\ pending[1] = GenerateChartOutcome(variant, env, FlatOf(ConfigArg(1))).settled

UserPath(i) == Get(ArgsOf(i), "outputPath")
PathResolved(i) == Download(i) /\ IsNonEmptyString(outputPath[i])

\* C16: with no output path the target directory is Desktop under the home directory if
\* and only if that directory exists and is writable, and the home directory otherwise; an
\* absent or unwritable Desktop never makes the invocation fail by itself, and an output
\* path the caller supplied is never replaced by the default.
C16_DefaultDirectory ==
    \A i \in Invocations :
        PathResolved(i)
        => IF IsNonEmptyString(UserPath(i))
           THEN outputPath[i] = UserPath(i)
           ELSE /\ dirname(outputPath[i].v)
                     = IF Writable(dirs, DesktopDir) THEN DesktopDir ELSE HomeDir
                /\ (pc[i] = "done" /\ ~Writable(dirs, DesktopDir) /\ Writable(dirs, HomeDir))
                   => Encoded(i)

\* no Desktop: the chart is saved in the home directory
C16_Witness ==
    /\ DownloadDone(1) /\ ~Has(ArgsOf(1), "outputPath") /\ PathResolved(1)
    /\ DesktopDir \notin DOMAIN dirs
    /\ dirname(outputPath[1].v) = HomeDir
    /\ Succeeded(1)

Happened(i, op) == \E k \in 1..Len(io[i]) : io[i][k].op = op

\* C17: the writability of the target directory is checked after normalization and before
\* the Builder runs; if the directory is missing or not writable the invocation fails with
\* InvalidParams (never InternalError), even when the config would also fail builder
\* validation, and neither the builder, the remote fetch nor the write is performed.
C17_DirectoryCheckedFirst ==
    \A i \in Invocations :
        (Download(i) /\ WritesToDisk(variant))
        => /\ Encoded(i)
              => /\ Normalized(i) /\ PathResolved(i)
                 /\ \E k \in 1..Len(io[i]) :
                       io[i][k] = Completed("access", dirname(outputPath[i].v), "ok")
           /\ (pc[i] = "done" /\ PathResolved(i) /\ ~Writable(dirs, dirname(outputPath[i].v)))
              => /\ FailedWith(i, "InvalidParams")
                 /\ ~Encoded(i) /\ chartConfig[i] = Undef
                 /\ ~Happened(i, "fetch") /\ ~Happened(i, "write")
                 /\ files = {}

\* a config the builder would reject, and an output directory that does not exist
C17_Witness ==
    /\ DownloadDone(1) /\ WritesToDisk(variant)
    /\ Get(ConfigArg(1), "type") = Str("foo")
    /\ outputPath[1] = Str("/missing/chart.png")
    /\ FailedWith(1, "InvalidParams")
    /\ response[1].error.message = "Output directory does not exist or is not writable: /missing"

Contains(s, sub) == \E j \in 1..(Len(s) - Len(sub) + 1) : SubSeq(s, j, j + Len(sub) - 1) = sub

\* the write of invocation i has failed with this code
WriteFailed(i, code) ==
    /\ DownloadDone(i) /\ PathResolved(i) /\ Len(io[i]) > 0
    /\ io[i][Len(io[i])] = Completed("write", outputPath[i].v, code)
    /\ code # "ok"

\* C18: a failure of the write step caused by permission denied or a missing directory
\* (EACCES, EROFS, ENOENT) surfaces as InvalidParams with a message naming the output
\* path, and a write failure with any other cause surfaces as InternalError.
C18_WriteFailureTranslated ==
    \A i \in Invocations : \A code \in AllWriteFailures :
        WriteFailed(i, code)
        => IF code \in {"EACCES", "EROFS", "ENOENT"}
           THEN /\ FailedWith(i, "InvalidParams")
                /\ Contains(response[i].error.message, outputPath[i].v)
           ELSE FailedWith(i, "InternalError")

C18_Witness ==
    /\ WriteFailed(1, "EROFS")
    /\ FailedWith(1, "InvalidParams")
    /\ response[1].error.message = "Cannot write to /out/chart.png: Permission denied"

\* the operations of the calls issued, in the order of their issue
Issued(i) ==
    LET starts == SelectSeq(io[i], LAMBDA e : e.phase = "start")
    IN [k \in 1..Len(starts) |-> starts[k].op]

IsPrefix(s, t) == Len(s) <= Len(t) /\ s = SubSeq(t, 1, Len(s))

\* C20: within one disk-writing download_chart invocation the external I/O steps happen
\* strictly in the order Desktop access check (only when no output path was given),
\* output-directory access check, remote fetch, file write; each step starts only after
\* the previous one completed, the write happens at most once and only after the fetch
\* succeeded, and an invocation that fails before the write leaves the filesystem unchanged.
C20_StepsInOrder ==
    \A i \in Invocations :
        (Download(i) /\ WritesToDisk(variant))
        => LET log == io[i]
           IN /\ IsPrefix(Issued(i),
                          IF Truthy(UserPath(i)) THEN <<"access", "fetch", "write">>
                          ELSE <<"access", "access", "fetch", "write">>)
              /\ (~Truthy(UserPath(i)) /\ Len(log) > 0) => log[1] = Started("access", DesktopDir)
              /\ \A k \in 1..Len(log) :
                    /\ (log[k].phase = "start") = (k % 2 = 1)
                    /\ (k % 2 = 0) => (log[k].op = log[k - 1].op /\ log[k].target = log[k - 1].target)
                    /\ (log[k].op = "write" /\ log[k].phase = "start")
                       => (log[k - 1].op = "fetch" /\ log[k - 1].phase = "ok")
              /\ (\E w \in written : w.by = i)
                    => (Len(log) > 0 /\ log[Len(log)] = Completed("write", outputPath[i].v, "ok"))
              /\ (pc[i] = "done" /\ ~Happened(i, "write")) => (files = {} /\ written = {})

\* a chart saved under the default path: four calls, each completed before the next
C20_Witness ==
    /\ DownloadDone(1) /\ WritesToDisk(variant) /\ ~Has(ArgsOf(1), "outputPath")
    /\ Succeeded(1)
    /\ Len(io[1]) = 8
    /\ files = {[path |-> outputPath[1].v, data |-> ImageData]}

\* a fetch or a write of invocation i has failed: a failure not caused by caller input
CollaboratorFailed(i) ==
    \E k \in 1..Len(io[i]) :
        io[i][k].op \in {"fetch", "write"} /\ io[i][k].phase \notin {"start", "ok"}

DownloadFailed(i) == DownloadDone(i) /\ response[i].kind = "error"

\* C21: every failure of a download_chart invocation surfaces as exactly one of
\* InvalidParams or InternalError with a non-empty message, and every failure caused by
\* caller input (a missing arguments object or a missing config included) is
\* InvalidParams, InternalError being used only when a collaborator failed; no invocation
\* returns both a result and an error.
C21_FailuresClassified ==
    \A i \in Invocations :
        DownloadFailed(i)
        => /\ response[i].error.code \in {"InvalidParams", "InternalError"}
           /\ response[i].error.message # ""
           /\ DOMAIN response[i] = {"kind", "error"}
           /\ ~CollaboratorFailed(i) => response[i].error.code = "InvalidParams"

TextTypes == {Str("graphviz"), Str("wordcloud")}

\* C25: in the variant that supports graphviz and wordcloud, download_chart with a config
\* of type graphviz or wordcloud never succeeds: without datasets the final validation
\* rejects it, and with datasets the encoder is called without the raw arguments, so every
\* such invocation ends in InvalidParams and performs no remote fetch and no file write.
C25_TextTypesNeverDownload ==
    \A i \in Invocations :
        (/\ DownloadDone(i) /\ variant = "part_000" /\ Normalized(i)
         /\ Get(normalizedConfig[i], "type") \in TextTypes)
        => /\ FailedWith(i, "InvalidParams")
           /\ ~Happened(i, "fetch") /\ ~Happened(i, "write")
           /\ files = {} /\ written = {}

\* a graphviz config with its DOT text and with datasets, and a writable directory: the
\* encoder does not see the DOT text
C25_Witness ==
    /\ DownloadDone(1) /\ variant = "part_000"
    /\ Get(normalizedConfig[1], "type") = Str("graphviz")
    /\ IsNonEmptyString(Get(normalizedConfig[1], "dot"))
    /\ Truthy(Get(normalizedConfig[1], "datasets"))
    /\ chartConfig[1] = Obj(<< KV("type", Str("graphviz")) >>)
    /\ response[1] = Rejected(McpError("InvalidParams",
                                       "DOT language code is required for graphviz charts"))

FetchFailed(i) ==
    \E k \in 1..Len(io[i]) : io[i][k].op = "fetch" /\ io[i][k].phase = "error"

\* C27: in the disk-writing download_chart a failure of the remote fetch always surfaces
\* as InternalError, whatever error code the HTTP client reports; only failures of the
\* write step are ever reclassified as InvalidParams.
C27_FetchFailureIsInternal ==
    \A i \in Invocations :
        (DownloadDone(i) /\ WritesToDisk(variant) /\ FetchFailed(i))
        => /\ FailedWith(i, "InternalError")
           /\ ~Contains(response[i].error.message, "Cannot write to")

-----------------------------------------------------------------------------
(* Properties of concurrent invocations (specification SpecConcurrent) *)

-----------------------------------------------------------------------------
(* Properties of concurrent download_chart invocations
   (specification SpecDownloadConcurrent) *)

WritersOf(path) == {w.by : w \in {x \in written : x.path = path}}

\* C19: for every interleaving of concurrent tool invocations no shared resource is written
\* by more than one invocation: no two download_chart invocations write the same output
\* file, two invocations that both rely on the default output path for the same chart type
\* included.
C19_NoFileWrittenTwice ==
    \A w \in written : Cardinality(WritersOf(w.path)) <= 1

-----------------------------------------------------------------------------
(* Properties of the JSON-RPC layer and the HTTP transport (specification SpecHttp) *)

HttpDone == http.phase = "done"
Served(method, path) == HttpDone /\ http.method = method /\ http.path = path

\* the answer read back by the client
Answer == JSONparse(http.payload)

\* a JSON-RPC envelope: jsonrpc 2.0 and exactly one of result and error
IsEnvelope(x) ==
    /\ x.k = "object"
    /\ Get(x, "jsonrpc") = Str("2.0")
    /\ Has(x, "result") # Has(x, "error")

\* the body of a POST was read as a request value that is not null
RequestParsed == HttpDone /\ http.rpc \notin {Undef, Null}

\* C22: in HTTP-transport mode every response carries the CORS header permitting any
\* origin, GET on /health or / returns the liveness JSON, GET and POST on /mcp/stream both
\* return a protocol envelope, and GET on /mcp/tools returns the tool listing, in every
\* HTTP variant of the server.
C22_Routing ==
    HttpDone
    => /\ <<"Access-Control-Allow-Origin", "*">> \in http.headers
       /\ \A path \in {"/health", "/"} :
             Served("GET", path) => (http.status = 200 /\ Answer = Liveness)
       /\ Served("GET", "/mcp/stream") => IsEnvelope(Answer)
       /\ (Served("POST", "/mcp/stream") /\ RequestParsed) => IsEnvelope(Answer)
       /\ Served("GET", "/mcp/tools")
             => (http.status = 200 /\ Answer = ResultEnvelope(Num(1), listToolsHandler))

\* handleRequest was called for the request being served, and has settled
Handled == HttpDone /\ http.handled.kind # "none"

MethodOf(rpc) == Get(rpc, "method")
ToolOf(rpc) == Get(Get(rpc, "params"), "name")
KnownTools == {Str("generate_chart"), Str("download_chart")}
CallsKnownTool(rpc) ==
    MethodOf(rpc) = Str("tools/call") /\ ToolOf(rpc) \in KnownTools
ErrorCodeIn(envelope) == Get(Get(envelope, "error"), "code")
ErrorMessageIn(envelope) == Get(Get(envelope, "error"), "message")

\* C23: handleRequest never throws or rejects: for every parsed request value it returns
\* exactly one JSON-RPC envelope carrying the id of the request and exactly one of
\* result and error; initialize, tools/list and a successful tools/call return a result, a
\* tool failure becomes an error envelope carrying the code and message of the error, and
\* any other method (and an unknown tool name) yields a MethodNotFound error.
C23_HandleRequestTotal ==
    Handled
    => /\ http.handled.kind = "envelope"
       /\ LET envelope == http.handled.envelope
               rpc == http.rpc
           IN /\ IsEnvelope(envelope)
              /\ Get(envelope, "id") = Get(rpc, "id")
              /\ MethodOf(rpc) \in {Str("initialize"), Str("tools/list")} => Has(envelope, "result")
              /\ (CallsKnownTool(rpc) /\ response[1].kind = "result")
                    => Get(envelope, "result") = ContentValue(response[1].content)
              /\ (CallsKnownTool(rpc) /\ response[1].kind = "error")
                    => /\ ErrorCodeIn(envelope) = Num(ErrorCode[response[1].error.code])
                       /\ ErrorMessageIn(envelope) = Str(response[1].error.message)
              /\ (MethodOf(rpc) \notin {Str("initialize"), Str("tools/list"), Str("tools/call")}
                     \/ (MethodOf(rpc) = Str("tools/call") /\ Get(rpc, "params") \notin {Undef, Null}
                           /\ ToolOf(rpc) \notin KnownTools))
                    => ErrorCodeIn(envelope) = Num(ErrorCode.MethodNotFound)

BodyIsJson == SkipValue(http.body, 1) = Len(http.body) + 1

\* C24: every incoming request receives exactly one response, for every method and path;
\* on POST /mcp/stream the status is 500 only when the body cannot be parsed as JSON, and
\* a tool failure is reported with status 200 and a JSON-RPC error envelope.
C24_OneResponse ==
    HttpDone
    => /\ http.ends = 1
       /\ (Served("POST", "/mcp/stream") /\ http.status = 500) => ~BodyIsJson
       /\ (Served("POST", "/mcp/stream") /\ RequestParsed /\ CallsKnownTool(http.rpc)
              /\ response[1].kind = "error")
             => (http.status = 200 /\ IsEnvelope(Answer) /\ Has(Answer, "error"))

====
